---- MODULE Spec2Model ----
(***************************************************************************)
(* Music-Mood-Classification: the lyrics heuristic                         *)
(* (lyrics_classifier_free.py), the audio confidence extraction            *)
(* (run_lyrics_comparison.get_audio_predictions), the batch columns of     *)
(* run_lyrics_comparison.main, the request handler that reconciles the two *)
(* (api_server.predict), the statistics endpoint (api_server.get_stats),   *)
(* the feature normalizer (audio_data.normalize_features) with its         *)
(* loudness cleaning (clean_loudness), the label mapping of                *)
(* prep_spotify.py, the bulk scoring (classify_dataset), the model         *)
(* selection of the two training scripts and the confidence flags.         *)
(*                                                                         *)
(* Numbers.  Python floats are modelled as records [k, v]: k = "fin" with  *)
(* v a fixed-point integer in units of 1/One, or k = "nan", "pinf",        *)
(* "ninf" for the IEEE special values.  VADER rounds the compound score to *)
(* four decimals and the mapping multiplies by 0.625 and 0.5, so seven     *)
(* decimals (One = 10^7) represent every value of the heuristic exactly.   *)
(***************************************************************************)
EXTENDS Integers, Sequences, FiniteSets, TLC

VARIABLES
    lyrics,             \* classify_lyrics: the `lyrics` argument
    compound,           \* classify_lyrics: scores['compound'] of the analyzer
    lyr_out,            \* classify_lyrics: the returned (mood, confidence)
    api_calls,          \* FreeLyricsClassifier.api_calls
    pcL,                \* position of the classify_lyrics call
    df_cols,            \* get_audio_predictions: the columns of `df`
    classes,            \* pipeline.classes_ of the fitted classifier
    pipe,               \* what pipeline.predict_proba(X) does for the row
    audio_info,         \* get_audio_predictions: the returned dict, or None
    top_idx,            \* get_audio_predictions: <<top1_idx, top2_idx>> of the row
    df_row,             \* get_audio_predictions: the row of `df`, column by column
    X,                  \* get_audio_predictions: the matrix row given to the pipeline
    batch_row,          \* main: the audio columns written for the row
    pcA,                \* position of the get_audio_predictions call
    model_data,         \* api_server.model_data (module level)
    lyrics_classifier,  \* api_server.lyrics_classifier (module level)
    req,                \* predict: the request being answered
    resp,               \* predict: the response returned
    log,                \* predict: which prediction steps ran and how they ended
    pcS,                \* position of the server process
    corpus,             \* get_stats: songs_with_predictions.csv as read
    stats,              \* get_stats: the response returned
    pcT,                \* position of the get_stats request
    nf_in,              \* normalize_features: the frame given
    nf_out,             \* normalize_features: what the call returned, or that it raised
    nf_twice,           \* normalize_features: the same for a second call on the result
    pcN,                \* position of the normalize_features calls
    series,             \* clean_loudness: the cell of the series given
    cleaned,            \* clean_loudness: the cell of the series returned
    pcC,                \* position of the clean_loudness call
    raw_df,             \* prep_spotify: the "emotion" column of the file read
    mapped_df,          \* prep_spotify: df after the label mapping
    pcP,                \* position of the prep_spotify script
    ds_df,              \* classify_dataset: the frame given
    max_songs,          \* classify_dataset: the max_songs argument
    ds_out,             \* classify_dataset: the frame returned, or the exception
    pcD,                \* position of the classify_dataset call
    cv_mean,            \* training: cv_scores.mean() of each candidate
    test_acc,           \* training: test_acc of each candidate
    best,               \* training: best_name, best_pipe, best_cv
    cand,               \* training: the candidate the loop is at
    artifact,           \* training: what joblib.dump wrote
    pcG,                \* position of the training script
    conf_in,            \* classify_lyrics: `confidence` before line 76
    conf_out,           \* classify_lyrics: `confidence` after line 78
    pcK,                \* position at the clamp of classify_lyrics
    song_conf,          \* one song: its audio confidence and margin, its lyrics confidence
    request_flags,      \* the flags api_server.predict assigned for the song
    batch_flags,        \* the flags run_lyrics_comparison.main assigned for the song
    pcW                 \* which of the two paths have run for the song

varsL == <<lyrics, compound, lyr_out, api_calls, pcL>>
varsA == <<df_cols, classes, pipe, audio_info, top_idx, df_row, X, batch_row, pcA>>
varsS == <<model_data, lyrics_classifier, req, resp, log, pcS>>
varsT == <<corpus, stats, pcT>>
varsN == <<nf_in, nf_out, nf_twice, pcN>>
varsC == <<series, cleaned, pcC>>
varsBase == <<varsL, varsA, varsS, varsT, varsN>>
varsP == <<raw_df, mapped_df, pcP>>
varsD == <<ds_df, max_songs, ds_out, pcD>>
varsG == <<cv_mean, test_acc, best, cand, artifact, pcG>>
varsK == <<conf_in, conf_out, pcK>>
varsW == <<song_conf, request_flags, batch_flags, pcW>>
varsX == <<varsC, varsP, varsD, varsG, varsK, varsW>>
vars  == <<varsBase, varsX>>

-----------------------------------------------------------------------------
(* Floating point *)

One == 10 * 1000 * 1000

Fin(x) == [k |-> "fin", v |-> x]
NaN    == [k |-> "nan", v |-> 0]
PInf   == [k |-> "pinf", v |-> 0]
NInf   == [k |-> "ninf", v |-> 0]

IsFin(a) == a.k = "fin"
IsNaN(a) == a.k = "nan"

\* a < b on floats: false as soon as one side is NaN
FLt(a, b) ==
    CASE IsNaN(a) \/ IsNaN(b) -> FALSE
      [] a.k = "ninf" -> b.k # "ninf"
      [] a.k = "pinf" -> FALSE
      [] b.k = "ninf" -> FALSE
      [] b.k = "pinf" -> TRUE
      [] OTHER -> a.v < b.v

FGt(a, b) == FLt(b, a)
FEq(a, b) == ~IsNaN(a) /\ ~IsNaN(b) /\ a = b
FLe(a, b) == FLt(a, b) \/ FEq(a, b)

\* a - b on floats
FSub(a, b) ==
    CASE IsNaN(a) \/ IsNaN(b) -> NaN
      [] a.k = "pinf" -> IF b.k = "pinf" THEN NaN ELSE PInf
      [] a.k = "ninf" -> IF b.k = "ninf" THEN NaN ELSE NInf
      [] b.k = "pinf" -> NInf
      [] b.k = "ninf" -> PInf
      [] OTHER -> Fin(a.v - b.v)

\* Python's builtin min(a, b) / max(a, b): the first argument is kept unless
\* the second compares strictly smaller / larger
PyMin(a, b) == IF FLt(b, a) THEN b ELSE a
PyMax(a, b) == IF FGt(b, a) THEN b ELSE a

FAbs(a) ==
    CASE a.k = "fin" -> Fin(IF a.v < 0 THEN -a.v ELSE a.v)
      [] a.k = "nan" -> NaN
      [] OTHER -> PInf

-----------------------------------------------------------------------------
(* Moods and lyrics values *)

Moods == {"happy", "chill", "sad", "hyped"}

\* a Python value handed in as `lyrics`: None, float('nan') or a str
PyNone    == [k |-> "none", s |-> <<>>]
PyNaN     == [k |-> "nan", s |-> <<>>]
PyStr(cs) == [k |-> "str", s |-> cs]

\* the characters lyrics are drawn from; " " is whitespace, "L" "T" are the
\* upper-case forms of "l" "t"
Alphabet == {"l", "i", "t", "L", " "}

Lower(ch) ==
    CASE ch = "L" -> "l"
      [] ch = "T" -> "t"
      [] ch = "S" -> "s"
      [] ch = "A" -> "a"
      [] ch = "D" -> "d"
      [] ch = "N" -> "n"
      [] OTHER -> ch

\* str.lower()
LowerStr(cs) == [i \in 1..Len(cs) |-> Lower(cs[i])]

IsSpace(ch) == ch = " "

\* str.strip() == ''
StripIsEmpty(cs) == \A i \in 1..Len(cs) : IsSpace(cs[i])

\* kw in cs (substring test)
Contains(kw, cs) ==
    \E i \in 0..(Len(cs) - Len(kw)) : \A j \in 1..Len(kw) : cs[i + j] = kw[j]

hyped_keywords ==
    { <<"p","a","r","t","y">>, <<"d","a","n","c","e">>,
      <<"e","n","e","r","g","y">>, <<"f","i","r","e">>, <<"w","i","l","d">>,
      <<"c","r","a","z","y">>, <<"l","i","t">>, <<"p","u","m","p">>,
      <<"b","e","a","t">>, <<"b","a","s","s">>, <<"d","r","o","p">>,
      <<"t","u","r","n","t">>, <<"h","y","p","e">> }

mood_labels == Moods

-----------------------------------------------------------------------------
(* FreeLyricsClassifier.classify_lyrics *)

Result(m, c) == [mood |-> m, confidence |-> c]

\* `not lyrics or pd.isna(lyrics) or str(lyrics).strip() == ''`, without the
\* whitespace test: what a check for missing values alone would do
IsMissingLyrics_NoStrip(ly) ==
    \/ ly.k = "none"
    \/ ly.k = "str" /\ ly.s = <<>>
    \/ ly.k = "nan"

\* `not lyrics or pd.isna(lyrics) or str(lyrics).strip() == ''`
IsMissingLyrics(ly) ==
    \/ ly.k = "none"
    \/ ly.k = "str" /\ ly.s = <<>>
    \/ ly.k = "nan"
    \/ ly.k = "str" /\ StripIsEmpty(ly.s)

\* the commented-out `return None, 0.0`
DefaultResult_None == Result("None", Fin(0))

\* `return 'chill', 0.1`
DefaultResult == Result("chill", Fin(One \div 10))

\* x * 0.625 and x * 0.5 on the fixed-point grid
Times0625(a) == Fin((a.v \div 8) * 5)
Times05(a)   == Fin(a.v \div 2)
FAddFin(a, b) == Fin(a.v + b.v)

\* the if/elif chain with the first test written >= instead of >
MoodMapping_HappyAtHalf(c) ==
    IF FLe(Fin(One \div 2), c) THEN Result("happy", c)
    ELSE IF FGt(c, Fin(One \div 10)) THEN
        Result("chill",
               FAddFin(Fin(One \div 2), Times0625(FSub(c, Fin(One \div 10)))))
    ELSE IF FLt(c, Fin(-(One \div 2))) THEN Result("sad", FAbs(c))
    ELSE IF FLt(c, Fin(-(One \div 10))) THEN
        IF FGt(FAbs(c), Fin(3 * (One \div 10))) THEN Result("sad", FAbs(c))
        ELSE Result("chill",
                    FAddFin(Fin(55 * (One \div 100)),
                            Times05(FSub(Fin(3 * (One \div 10)), FAbs(c)))))
    ELSE Result("chill", Fin(65 * (One \div 100)))

\* the if/elif chain over the compound score
MoodMapping(c) ==
    IF FGt(c, Fin(One \div 2)) THEN Result("happy", c)
    ELSE IF FGt(c, Fin(One \div 10)) THEN
        Result("chill",
               FAddFin(Fin(One \div 2), Times0625(FSub(c, Fin(One \div 10)))))
    ELSE IF FLt(c, Fin(-(One \div 2))) THEN Result("sad", FAbs(c))
    ELSE IF FLt(c, Fin(-(One \div 10))) THEN
        IF FGt(FAbs(c), Fin(3 * (One \div 10))) THEN Result("sad", FAbs(c))
        ELSE Result("chill",
                    FAddFin(Fin(55 * (One \div 100)),
                            Times05(FSub(Fin(3 * (One \div 10)), FAbs(c)))))
    ELSE Result("chill", Fin(65 * (One \div 100)))

\* any(keyword in lyrics_lower for keyword in hyped_keywords)
HasHypedKeyword(cs) ==
    \E kw \in hyped_keywords : Contains(kw, LowerStr(cs))

\* the override applied only to a mood the table left at chill
KeywordOverride_ChillOnly(r, cs, c) ==
    IF HasHypedKeyword(cs) /\ FGt(c, Fin(2 * (One \div 10))) /\ r.mood = "chill"
    THEN Result("hyped",
                PyMin(Fin(9 * (One \div 10)),
                      FAddFin(FAbs(c), Fin(2 * (One \div 10)))))
    ELSE r

\* `if any(...): if compound > 0.2: mood = 'hyped'; confidence = min(0.9, ...)`
KeywordOverride(r, cs, c) ==
    IF HasHypedKeyword(cs) /\ FGt(c, Fin(2 * (One \div 10)))
    THEN Result("hyped",
                PyMin(Fin(9 * (One \div 10)),
                      FAddFin(FAbs(c), Fin(2 * (One \div 10)))))
    ELSE r

\* `confidence = max(0.0, min(1.0, float(confidence)))` followed by
\* `if confidence != confidence: confidence = 0.1`
ClampConfidence(x) ==
    LET clamped == PyMax(Fin(0), PyMin(Fin(One), x))
    IN  IF IsNaN(clamped) THEN Fin(One \div 10) ELSE clamped

\* `if mood not in self.mood_labels: mood = 'chill'`
ValidMood(m) == IF m \in mood_labels THEN m ELSE "chill"

\* the value classify_lyrics returns for `lyrics`, the analyzer giving
\* compound score c for str(lyrics)
ClassifyLyrics(ly, c) ==
    IF IsMissingLyrics(ly) THEN DefaultResult
    ELSE LET r == KeywordOverride(MoodMapping(c), ly.s, c)
         IN  Result(ValidMood(r.mood), ClampConfidence(r.confidence))

\* whether the call reaches `self.api_calls += 1`
CountsCall(ly) == ~IsMissingLyrics(ly)

-----------------------------------------------------------------------------
(* Inputs of the lyrics heuristic *)

MaxLen == 4

Texts == UNION { [1..n -> Alphabet] : n \in 0..MaxLen }

LyricsInputs == {PyNone, PyNaN} \cup { PyStr(cs) : cs \in Texts }

\* compound scores in units of 1/10000 (VADER rounds to four decimals):
\* both ends, every threshold of the mapping and its two neighbours
CompoundGrid4 ==
    { -10000, -7500, -5001, -5000, -4999, -3001, -3000, -2999, -1001, -1000,
      -999, 0, 999, 1000, 1001, 2000, 2001, 3000, 5000, 5001, 6999, 7000,
      7001, 10000 }

CompoundInputs == { Fin(c * 1000) : c \in CompoundGrid4 }

NoResult == Result("", Fin(0))

InitLyrics ==
    /\ lyrics \in LyricsInputs
    /\ compound \in CompoundInputs
    /\ lyr_out = NoResult
    /\ api_calls = 0
    /\ pcL = "call"

\* one call of classify_lyrics(lyrics)
ClassifyLyricsCall ==
    /\ pcL = "call"
    /\ lyr_out' = ClassifyLyrics(lyrics, compound)
    /\ api_calls' = IF CountsCall(lyrics) THEN api_calls + 1 ELSE api_calls
    /\ pcL' = "returned"
    /\ UNCHANGED <<lyrics, compound>>


-----------------------------------------------------------------------------
(* run_lyrics_comparison.get_audio_predictions, for one row of the frame *)

\* model_data['features'], in the order stored in the artifact
feature_names == <<"tempo", "energy">>

\* [f for f in feature_names if f in df.columns]
AvailableFeatures(cols) ==
    SelectSeq(feature_names, LAMBDA f : f \in cols)

\* a cell of the frame: a column name and the row's value in it
Cell(c, v) == [col |-> c, val |-> v]

ColumnsOf(x) == { x[i].col : i \in 1..Len(x) }

\* x[names]: the columns of x picked by name, in the order of `names`
SelectColumns(x, names) ==
    [i \in 1..Len(names) |->
        x[CHOOSE j \in 1..Len(x) : x[j].col = names[i]]]

\* for feature in feature_names: if feature not in X.columns: X[feature] = 0
RECURSIVE FillMissing(_, _)
FillMissing(x, i) ==
    IF i > Len(feature_names) THEN x
    ELSE FillMissing(IF feature_names[i] \in ColumnsOf(x) THEN x
                     ELSE Append(x, Cell(feature_names[i], 0)),
                     i + 1)

\* the reordering left out
Reorder_Skip(x) == x

\* X = X[feature_names]
Reorder(x) == SelectColumns(x, feature_names)

\* the X handed to pipeline.predict and pipeline.predict_proba
PipelineInput(dfr) ==
    Reorder(FillMissing(SelectColumns(dfr, AvailableFeatures(ColumnsOf(dfr))), 1))

\* the order np.argsort sorts floats in: -inf, the finite values, +inf, NaN
SortLe(a, b) == IsNaN(b) \/ (~IsNaN(a) /\ ~FLt(b, a))

\* The pairs <<sorted_idx[-1], sorted_idx[-2]>> an ascending argsort of the
\* row can produce.  np.argsort's default kind is not stable, so the order of
\* equal entries is left open.
ArgsortTop2(row) ==
    { p \in (1..Len(row)) \X (1..Len(row)) :
        /\ p[1] # p[2]
        /\ SortLe(row[p[2]], row[p[1]])
        /\ \A k \in 1..Len(row) : k \notin {p[1], p[2]} => SortLe(row[k], row[p[2]]) }

\* np.argmax(row): the first index holding the maximum, a NaN counting as one
ArgMax(row) ==
    CHOOSE i \in 1..Len(row) :
        /\ \A k \in 1..Len(row) : SortLe(row[k], row[i])
        /\ \A k \in 1..(i - 1) : ~SortLe(row[i], row[k])

\* pipeline.predict(X): the fitted classifiers (RandomForest, KNeighbors,
\* LogisticRegression) answer classes_[argmax] of the row's scores
PipelinePredict(row, cls) == cls[ArgMax(row)]

\* np.clip(x, 0, 1): a NaN stays a NaN
NpClip01(x) ==
    CASE IsNaN(x) -> NaN
      [] FLt(x, Fin(0)) -> Fin(0)
      [] FGt(x, Fin(One)) -> Fin(One)
      [] OTHER -> x

\* the sanitising step left out
NanToNum_Identity(x) == x

\* np.nan_to_num(x, nan=0.0, posinf=1.0, neginf=0.0)
NanToNum(x) ==
    CASE x.k = "nan" -> Fin(0)
      [] x.k = "pinf" -> Fin(One)
      [] x.k = "ninf" -> Fin(0)
      [] OTHER -> x

NoAudioInfo ==
    [ok |-> FALSE, predictions |-> "", confidence |-> Fin(0),
     second_choice |-> "", second_confidence |-> Fin(0), margin |-> Fin(0)]

\* the dict built from the row once sorted_idx is known (p = <<top1, top2>>)
AudioInfo(row, cls, p) ==
    [ok |-> TRUE,
     predictions |-> PipelinePredict(row, cls),
     confidence |-> NanToNum(NpClip01(row[p[1]])),
     second_choice |-> cls[p[2]],
     second_confidence |-> NanToNum(NpClip01(row[p[2]])),
     margin |-> NanToNum(NpClip01(FSub(row[p[1]], row[p[2]])))]

\* The values get_audio_predictions can return for a frame with columns
\* `cols`: None when no feature is available, when the pipeline raises or
\* when sorted_idx[:, -2] does not exist (a single class); the dict otherwise.
ReturnsNone(cols, pp) ==
    \/ AvailableFeatures(cols) = <<>>
    \/ ~pp.ok
    \/ Len(pp.row) < 2

GetAudioPredictions(cols, cls, pp) ==
    IF ReturnsNone(cols, pp) THEN {NoAudioInfo}
    ELSE { AudioInfo(pp.row, cls, p) : p \in ArgsortTop2(pp.row) }

-----------------------------------------------------------------------------
(* Inputs of get_audio_predictions *)

MaxClasses == 3

\* entries of a probability row, in and out of [0, 1], and the special values
ProbaValues ==
    {NaN, PInf, NInf} \cup
    { Fin(x * (One \div 100)) : x \in {-30, 0, 20, 35, 40, 50, 100, 130} }

\* class orderings: the sorted one scikit-learn keeps, and another one
ClassOrders ==
    { <<"chill", "happy", "hyped", "sad">>, <<"sad", "chill", "happy", "hyped">> }

\* the class lists of a fitted classifier: fitting the LogisticRegression
\* candidate fails on fewer than two classes, so a saved artifact has two or more
ClassLists == { SubSeq(o, 1, n) : o \in ClassOrders, n \in 2..MaxClasses }

PipeRaises == [ok |-> FALSE, row |-> <<>>]
PipeRow(r) == [ok |-> TRUE, row |-> r]

\* what the pipeline does on the row, for a classifier of n classes
PipeOutcomes(n) == {PipeRaises} \cup { PipeRow(r) : r \in [1..n -> ProbaValues] }

Columns == {"tempo", "energy", "Album"}

\* the values of a cell (Album holds a number here, as any other column)
CellValues == {0, 4, 9}

\* the columns in the order the dataset files carry them
ColumnOrder == <<"tempo", "energy", "Album">>

\* the frame with the columns `cols` in the files' order, every cell 4
FrameOf(cols) ==
    LET names == SelectSeq(ColumnOrder, LAMBDA c : c \in cols)
    IN  [i \in 1..Len(names) |-> Cell(names[i], 4)]

\* every frame over Columns: any subset, in any order, with any values
Frames ==
    UNION { { f \in [1..n -> [col : Columns, val : CellValues]] :
                \A i, j \in 1..n : i # j => f[i].col # f[j].col }
            : n \in 0..Cardinality(Columns) }

NoBatchRow ==
    [written |-> FALSE, audio_prediction |-> "", audio_confidence |-> Fin(0),
     audio_second_choice |-> "", audio_second_confidence |-> Fin(0),
     audio_margin |-> Fin(0), audio_low_confidence |-> FALSE,
     audio_borderline |-> FALSE, audio_top2_combo |-> ""]

InitAudio ==
    /\ df_cols \in SUBSET Columns
    /\ df_row = FrameOf(df_cols)
    /\ classes \in ClassLists
    /\ pipe \in PipeOutcomes(Len(classes))
    /\ audio_info = NoAudioInfo
    /\ top_idx = <<0, 0>>
    /\ X = <<>>
    /\ batch_row = NoBatchRow
    /\ pcA = "call"

\* frames in any column order, for a classifier of two classes
InitFrame ==
    /\ df_row \in Frames
    /\ df_cols = ColumnsOf(df_row)
    /\ classes = <<"chill", "happy">>
    /\ pipe \in {PipeRaises, PipeRow(<<Fin(35 * (One \div 100)), Fin(50 * (One \div 100))>>)}
    /\ audio_info = NoAudioInfo
    /\ top_idx = <<0, 0>>
    /\ X = <<>>
    /\ batch_row = NoBatchRow
    /\ pcA = "call"

\* one call of get_audio_predictions(df, model_data)
GetAudioPredictionsCall ==
    /\ pcA = "call"
    /\ \E p \in IF ReturnsNone(df_cols, pipe) THEN {<<0, 0>>} ELSE ArgsortTop2(pipe.row) :
        /\ top_idx' = p
        /\ audio_info' = IF ReturnsNone(df_cols, pipe) THEN NoAudioInfo
                         ELSE AudioInfo(pipe.row, classes, p)
    /\ X' = IF AvailableFeatures(df_cols) = <<>> THEN <<>> ELSE PipelineInput(df_row)
    /\ pcA' = "returned"
    /\ UNCHANGED <<df_cols, df_row, classes, pipe, batch_row>>

-----------------------------------------------------------------------------
(* run_lyrics_comparison.main: the audio columns of a row of the batch *)

\* the thresholds of api_server.py
AUDIO_LOW_CONF_THRESHOLD  == Fin(35 * (One \div 100))
LYRICS_LOW_CONF_THRESHOLD == Fin(60 * (One \div 100))

\* the thresholds of run_lyrics_comparison.py, which defines the first and
\* the last under the names api_server.py uses
BATCH_AUDIO_LOW_CONF_THRESHOLD  == Fin(35 * (One \div 100))
AUDIO_BORDERLINE_MARGIN         == Fin(15 * (One \div 100))
BATCH_LYRICS_LOW_CONF_THRESHOLD == Fin(60 * (One \div 100))

\* the borderline test with the bound included
AudioBorderline_Inclusive(margin) == FLe(margin, AUDIO_BORDERLINE_MARGIN)

\* df['audio_borderline'] = df['audio_margin'] < AUDIO_BORDERLINE_MARGIN
AudioBorderline(margin) == FLt(margin, AUDIO_BORDERLINE_MARGIN)

\* f"{row['audio_prediction']}|{row['audio_second_choice']}" if
\* row['audio_borderline'] else row['audio_prediction']
Top2Combo(prediction, second_choice, borderline) ==
    IF borderline THEN prediction \o "|" \o second_choice ELSE prediction

BatchRow(info) ==
    [written |-> TRUE,
     audio_prediction |-> info.predictions,
     audio_confidence |-> info.confidence,
     audio_second_choice |-> info.second_choice,
     audio_second_confidence |-> info.second_confidence,
     audio_margin |-> info.margin,
     audio_low_confidence |-> FLt(info.confidence, BATCH_AUDIO_LOW_CONF_THRESHOLD),
     audio_borderline |-> AudioBorderline(info.margin),
     audio_top2_combo |-> Top2Combo(info.predictions, info.second_choice,
                                    AudioBorderline(info.margin))]

\* main after get_audio_predictions: `if audio_info is None: return`, else
\* the audio columns are written
MainAudioColumns ==
    /\ pcA = "returned"
    /\ IF audio_info.ok
       THEN batch_row' = BatchRow(audio_info) /\ pcA' = "written"
       ELSE batch_row' = batch_row /\ pcA' = "exit"
    /\ UNCHANGED <<df_cols, df_row, classes, pipe, audio_info, top_idx, X>>

-----------------------------------------------------------------------------
(* api_server: load_models and the /api/predict handler *)

NoModel      == [loaded |-> FALSE, classes |-> <<>>]
Model(cls)   == [loaded |-> TRUE, classes |-> cls]

\* a JSON list of two or more elements given as `lyrics`: pd.isna() answers
\* an array, whose truth value raises ValueError inside classify_lyrics
PyList == [k |-> "list", s |-> <<>>]

\* bool(lyrics)
Truthy(ly) ==
    CASE ly.k = "none" -> FALSE
      [] ly.k = "str" -> ly.s # <<>>
      [] OTHER -> TRUE

ClassifyLyricsRaises(ly) == ly.k = "list"

NoPrediction ==
    [some |-> FALSE, mood |-> "", confidence |-> Fin(0), lowConfidence |-> FALSE]

\* the result dict with the flag set at the threshold as well
Prediction_Inclusive(m, c, threshold) ==
    [some |-> TRUE, mood |-> m, confidence |-> c, lowConfidence |-> FLe(c, threshold)]

Prediction(m, c, threshold) ==
    [some |-> TRUE, mood |-> m, confidence |-> c, lowConfidence |-> FLt(c, threshold)]

\* `if audio_info:` ... audio_result = {...}
AudioResult(info) ==
    IF info.ok
    THEN Prediction(info.predictions, info.confidence, AUDIO_LOW_CONF_THRESHOLD)
    ELSE NoPrediction

\* `if lyrics and lyrics_classifier:` ... `if mood:` lyrics_result = {...};
\* an exception of the classifier is caught and leaves lyrics_result None
LyricsResult(ly, c, clf) ==
    IF ~(Truthy(ly) /\ clf) THEN NoPrediction
    ELSE IF ClassifyLyricsRaises(ly) THEN NoPrediction
    ELSE LET r == ClassifyLyrics(ly, c)
         IN  IF r.mood \in {"", "None"} THEN NoPrediction
             ELSE Prediction(r.mood, r.confidence, LYRICS_LOW_CONF_THRESHOLD)

\* agree computed with a single test: False whenever the two are not both there
Agree_DefaultFalse(audio_result, lyrics_result) ==
    IF audio_result.some /\ lyrics_result.some
    THEN IF audio_result.mood = lyrics_result.mood THEN "true" ELSE "false"
    ELSE "false"

\* `agree = False; if audio_result and lyrics_result: ... elif not lyrics_result: agree = None`
Agree(audio_result, lyrics_result) ==
    IF audio_result.some /\ lyrics_result.some
    THEN IF audio_result.mood = lyrics_result.mood THEN "true" ELSE "false"
    ELSE IF ~lyrics_result.some THEN "null"
    ELSE "false"

NoResponse == [status |-> 0, error |-> "", audio |-> NoPrediction,
               lyrics |-> NoPrediction, agree |-> "null"]

ErrorResponse(code, msg) ==
    [status |-> code, error |-> msg, audio |-> NoPrediction,
     lyrics |-> NoPrediction, agree |-> "null"]

OkResponse(a, l) ==
    [status |-> 200, error |-> "", audio |-> a, lyrics |-> l, agree |-> Agree(a, l)]

NoLog == [audio |-> "skipped", lyrics |-> "skipped"]

NoRequest == [data |-> "", audio_features |-> "", lyrics |-> PyNone,
              dataset_lyrics |-> PyNone]

\* A request body.  data: "no_song" (empty body or no 'song' key), "list" (a
\* JSON list holding "song") or "object".  audio_features: "absent_unknown"
\* (not given, song not in the dataset), "absent_found" (not given, found in
\* the dataset), "numeric", "non_numeric" (a dict with a value the pipeline
\* cannot convert) or "not_a_dict".  lyrics: the value of data.get('lyrics').
\* dataset_lyrics: what find_lyrics_in_dataset answers for the song (None or
\* a text that is not blank).
Requests(lyricsValues, datasetLyrics) ==
    [data : {"no_song", "list", "object"},
     audio_features : {"absent_unknown", "absent_found", "numeric",
                       "non_numeric", "not_a_dict"},
     lyrics : lyricsValues,
     dataset_lyrics : datasetLyrics]

\* `lyrics = data.get('lyrics'); if lyrics is None: lyrics = find_lyrics_in_dataset(...)`
RequestLyrics(r) == IF r.lyrics.k = "none" THEN r.dataset_lyrics ELSE r.lyrics

\* the pipeline's outcome for the request's features (row: its probabilities
\* when they are numeric)
PipeFor(r, row) ==
    IF r.audio_features \in {"numeric", "absent_found"} THEN PipeRow(row)
    ELSE PipeRaises

\* df = pd.DataFrame([feature_dict]) has every name of feature_names
RequestColumns == { feature_names[i] : i \in 1..Len(feature_names) }

\* how the audio step of the handler ended
AudioStep(info) == IF info.ok THEN "ok" ELSE "none"

\* how the lyrics step of the handler ended
LyricsStep(ly, clf) ==
    IF ~(Truthy(ly) /\ clf) THEN "skipped"
    ELSE IF ClassifyLyricsRaises(ly) THEN "raised"
    ELSE "ok"

\* the audio part of load_models without the test of model_data
LoadAudio_Always(md, exists, loaded) == IF exists THEN loaded ELSE md

\* `if model_data is None and MODEL_PATH.exists(): model_data = load_audio_model(...)`
LoadAudio(md, exists, loaded) == IF ~md.loaded /\ exists THEN loaded ELSE md

\* `if lyrics_classifier is None:` try FreeLyricsClassifier(), None on failure
LoadLyrics(clf, vader) == IF ~clf THEN vader ELSE clf

\* load_models(): exists = MODEL_PATH.exists(), loaded = what
\* load_audio_model returns (NoModel when joblib.load fails), vader = whether
\* FreeLyricsClassifier() can be constructed
LoadModels ==
    /\ pcS \in {"boot", "serving"}
    /\ \E exists \in BOOLEAN, loaded \in {NoModel} \cup { Model(c) : c \in ClassLists },
          vader \in BOOLEAN :
        /\ model_data' = LoadAudio(model_data, exists, loaded)
        /\ lyrics_classifier' = LoadLyrics(lyrics_classifier, vader)
    /\ pcS' = "serving"
    /\ UNCHANGED <<req, resp, log>>

\* the handler reaches the audio step with features the pipeline is run on
ReachesPipeline(r) ==
    /\ r.data = "object"
    /\ r.audio_features \in {"absent_found", "numeric", "non_numeric"}
    /\ model_data.loaded

\* the handler reaches the lyrics step
ReachesLyrics(r) ==
    /\ r.data = "object"
    /\ r.audio_features \in {"absent_found", "numeric", "non_numeric"}
    /\ model_data.loaded

MaxCalls == 2

ApiLyrics ==
    { PyNone, PyNaN, PyList, PyStr(<<>>), PyStr(<<" ">>),
      PyStr(<<"l", "i", "t">>), PyStr(<<"i", "l", "l">>),
      PyStr(<<"L", "i", "t", " ">>) }

ApiDatasetLyrics == { PyNone, PyStr(<<"l", "i", "t">>) }

ApiCompounds == { Fin(c * 1000) : c \in {-6000, 0, 3000, 7000} }

ApiProbaValues == { NaN, Fin(20 * (One \div 100)), Fin(50 * (One \div 100)) }

\* the response of predict() to request r, the pipeline giving `row` and the
\* analyzer compound score c; `info` is what get_audio_predictions returned
PredictResponse(r, info, c) ==
    IF r.data = "no_song" THEN ErrorResponse(400, "Missing required field: 'song'")
    ELSE IF r.data = "list" THEN ErrorResponse(500, "Server error")
    ELSE IF r.audio_features = "absent_unknown"
        THEN ErrorResponse(404, "Song not found in dataset")
    ELSE IF ~model_data.loaded THEN ErrorResponse(500, "Audio model not loaded")
    ELSE IF r.audio_features = "not_a_dict"
        THEN ErrorResponse(500, "Audio prediction failed")
    ELSE OkResponse(AudioResult(info),
                    LyricsResult(RequestLyrics(r), c, lyrics_classifier))

\* which steps the handler ran for request r
PredictLog(r, info) ==
    IF r.data # "object" \/ r.audio_features = "absent_unknown" \/ ~model_data.loaded
    THEN NoLog
    ELSE IF r.audio_features = "not_a_dict"
    THEN [audio |-> "raised", lyrics |-> "skipped"]
    ELSE [audio |-> AudioStep(info),
          lyrics |-> LyricsStep(RequestLyrics(r), lyrics_classifier)]

\* whether the handler's classify_lyrics call reaches `self.api_calls += 1`
PredictCounts(r) ==
    /\ ReachesLyrics(r)
    /\ LyricsStep(RequestLyrics(r), lyrics_classifier) = "ok"
    /\ CountsCall(RequestLyrics(r))

\* POST /api/predict
Predict ==
    /\ pcS = "serving"
    /\ api_calls < MaxCalls
    /\ \E r \in Requests(ApiLyrics, ApiDatasetLyrics) :
       \E row \in IF ReachesPipeline(r)
                  THEN [1..Len(model_data.classes) -> ApiProbaValues]
                  ELSE {<<>>} :
       \E c \in IF ReachesLyrics(r) THEN ApiCompounds ELSE {Fin(0)} :
       \E info \in IF ReachesPipeline(r)
                   THEN GetAudioPredictions(RequestColumns, model_data.classes,
                                            PipeFor(r, row))
                   ELSE {NoAudioInfo} :
          /\ req' = r
          /\ resp' = PredictResponse(r, info, c)
          /\ log' = PredictLog(r, info)
          /\ api_calls' = IF PredictCounts(r) THEN api_calls + 1 ELSE api_calls
    /\ pcS' = "responded"
    /\ UNCHANGED <<model_data, lyrics_classifier>>

\* the response has been sent; the server waits for the next request
FinishRequest ==
    /\ pcS = "responded"
    /\ pcS' = "serving"
    /\ req' = NoRequest
    /\ resp' = NoResponse
    /\ log' = NoLog
    /\ UNCHANGED <<model_data, lyrics_classifier, api_calls>>

-----------------------------------------------------------------------------
(* api_server.get_stats: the statistics of songs_with_predictions.csv *)

\* the four moods in the order get_stats walks them
valid_moods == <<"happy", "chill", "sad", "hyped">>

\* a mood as the characters of its text
Chars(m) ==
    CASE m = "happy" -> <<"h", "a", "p", "p", "y">>
      [] m = "chill" -> <<"c", "h", "i", "l", "l">>
      [] m = "sad"   -> <<"s", "a", "d">>
      [] m = "hyped" -> <<"h", "y", "p", "e", "d">>

\* str.capitalize() of a mood
Capitalize(m) ==
    CASE m = "happy" -> "Happy"
      [] m = "chill" -> "Chill"
      [] m = "sad"   -> "Sad"
      [] m = "hyped" -> "Hyped"

\* str.strip(): leading and trailing whitespace removed
RECURSIVE LStrip(_)
LStrip(cs) ==
    IF cs # <<>> /\ IsSpace(Head(cs)) THEN LStrip(Tail(cs)) ELSE cs

RECURSIVE RStrip(_)
RStrip(cs) ==
    IF cs # <<>> /\ IsSpace(cs[Len(cs)]) THEN RStrip(SubSeq(cs, 1, Len(cs) - 1))
    ELSE cs

Strip(cs) == RStrip(LStrip(cs))

\* the normalisation with the trimming left out
NormalizeText_NoStrip(cs) == LowerStr(cs)

\* .astype(str).str.lower().str.strip() on a cell that holds a text
NormalizeText(cs) == Strip(LowerStr(cs))

\* the texts .replace(['nan', 'none', 'null', ''], pd.NA) turns into missing
NullTexts ==
    { <<"n", "a", "n">>, <<"n", "o", "n", "e">>, <<"n", "u", "l", "l">>, <<>> }

\* a prediction cell after lines 397-407 (the cell is not null: dropna ran)
NormalizePrediction(cell) ==
    LET t == NormalizeText(cell.s)
    IN  IF t \in NullTexts THEN PyNaN ELSE PyStr(t)

\* .isin(valid_moods)
IsIn(cell, moods) ==
    cell.k = "str" /\ \E i \in 1..Len(moods) : cell.s = Chars(moods[i])

\* the mood a normalised, admitted cell holds
MoodOf(cell) == CHOOSE m \in Moods : Chars(m) = cell.s

\* a confidence cell that is not a number ("high", "n/a.")
NonNumeric == [k |-> "text", v |-> 0]

\* pd.to_numeric(..., errors='coerce'): a missing cell is NaN already
ToNumeric(cell) == IF cell.k = "text" THEN NaN ELSE cell

\* a row of the file
Row(ap, lp, ac, lc) ==
    [audio_prediction |-> ap, lyrics_prediction |-> lp,
     audio_confidence |-> ac, lyrics_confidence |-> lc]

\* df.dropna(subset=['audio_prediction', 'lyrics_prediction'])
NotNull(row) == row.audio_prediction.k # "nan" /\ row.lyrics_prediction.k # "nan"

\* lines 388-417 for one row: does the row stay in df_valid
Admitted(row) ==
    /\ NotNull(row)
    /\ IsIn(NormalizePrediction(row.audio_prediction), valid_moods)
    /\ IsIn(NormalizePrediction(row.lyrics_prediction), valid_moods)
    /\ NotNull([row EXCEPT !.audio_prediction = NormalizePrediction(@),
                           !.lyrics_prediction = NormalizePrediction(@)])

\* a row of df_valid: moods normalised
ValidRow(row) ==
    [audio |-> MoodOf(NormalizePrediction(row.audio_prediction)),
     lyrics |-> MoodOf(NormalizePrediction(row.lyrics_prediction)),
     audio_confidence |-> row.audio_confidence,
     lyrics_confidence |-> row.lyrics_confidence]

\* df_valid after line 417
DfValid(rows) ==
    LET kept == SelectSeq(rows, Admitted)
    IN  [i \in 1..Len(kept) |-> ValidRow(kept[i])]

\* the number of rows of df for which P holds
CountRows(df, P(_)) == Cardinality({ i \in 1..Len(df) : P(df[i]) })

Hundred == Fin(100 * One)

\* (n / d) * 100 in floating point; 0 / 0 is NaN
Pct(n, d) == IF d = 0 THEN NaN ELSE Fin(((n * One) \div d) * 100)

\* `if not (0 <= pct <= 100) or not (pct == pct): pct = 0.0`
ValidPct(p) ==
    IF ~(FLe(Fin(0), p) /\ FLe(p, Hundred)) \/ ~FEq(p, p) THEN Fin(0) ELSE p

\* the percentage computed without the guard and the validation
GuardedPct_Unguarded(n, d) == Pct(n, d)

\* `if total > 0: pct = float((n / total) * 100); <validation> else: pct = 0.0`
GuardedPct(n, d) == IF d > 0 THEN ValidPct(Pct(n, d)) ELSE Fin(0)

\* max(0.0, min(100.0, pct))
ClampPct(p) == PyMax(Fin(0), PyMin(Hundred, p))

\* the empty test that never fires
IsEmpty_Never(df) == FALSE

\* len(df_valid) == 0
IsEmpty(df) == Len(df) = 0

\* lines 426-435
AgreementCount(df) == CountRows(df, LAMBDA r : r.audio = r.lyrics)

AgreementPct(df) == GuardedPct(AgreementCount(df), Len(df))

\* int(max(0, total_count - agreement_count))
DisagreeCount(total, agree) == IF total - agree > 0 THEN total - agree ELSE 0

\* the complement taken to 1 instead of 100
DisagreePct_OfOne(agreement_pct) == FSub(Fin(One), agreement_pct)

\* lines 627-629
DisagreePct(agreement_pct) ==
    LET d == FSub(Hundred, agreement_pct)
    IN  IF ~FEq(d, d) \/ ~(FLe(Fin(0), d) /\ FLe(d, Hundred))
        THEN ClampPct(FSub(Hundred, agreement_pct))
        ELSE d

Agreement(df) ==
    [agree |-> AgreementCount(df),
     disagree |-> DisagreeCount(Len(df), AgreementCount(df)),
     agree_pct |-> ClampPct(AgreementPct(df)),
     disagree_pct |-> DisagreePct(AgreementPct(df))]

\* -1000 <= pct <= 1000 (false on NaN and on the infinities)
InRange1000(p) ==
    IsFin(p) /\ -1000 <= p.v \div One /\ p.v \div One <= 1000 /\
    (p.v \div One = 1000 => p.v % One = 0)

\* value_counts(normalize=True) * 100 read for one mood, lines 446-452
DistPct(count, total) ==
    IF count > 0
    THEN LET pct == Pct(count, total)
         IN  IF ~FEq(pct, pct) \/ ~InRange1000(pct) THEN Fin(0) ELSE pct
    ELSE Fin(0)

\* lines 444-466
Distribution(df) ==
    [i \in 1..Len(valid_moods) |->
        [mood |-> Capitalize(valid_moods[i]),
         audio |-> ClampPct(DistPct(
                      CountRows(df, LAMBDA r : r.audio = valid_moods[i]), Len(df))),
         lyrics |-> ClampPct(DistPct(
                      CountRows(df, LAMBDA r : r.lyrics = valid_moods[i]), Len(df)))]]

\* the cell read with audio and lyrics exchanged
ConfusionCell_Transposed(df, a, l) ==
    CountRows(df, LAMBDA r : r.audio = l /\ r.lyrics = a)

\* lyrics_counts.get(l, 0) within the rows whose audio mood is a
ConfusionCell(df, a, l) ==
    CountRows(df, LAMBDA r : r.audio = a /\ r.lyrics = l)

\* lines 469-492
Confusion(df) ==
    [i \in 1..Len(valid_moods) |->
        [audio |-> Capitalize(valid_moods[i]),
         happy |-> ConfusionCell(df, valid_moods[i], "happy"),
         chill |-> ConfusionCell(df, valid_moods[i], "chill"),
         sad   |-> ConfusionCell(df, valid_moods[i], "sad"),
         hyped |-> ConfusionCell(df, valid_moods[i], "hyped")]]

\* dropna on the audio confidence alone
HasConfidences_AudioOnly(r) == ~IsNaN(ToNumeric(r.audio_confidence))

\* df_conf: to_numeric on both confidences, dropna on both, clip(0, 1)
HasConfidences(r) ==
    ~IsNaN(ToNumeric(r.audio_confidence)) /\ ~IsNaN(ToNumeric(r.lyrics_confidence))

DfConf(df) ==
    LET kept == SelectSeq(df, HasConfidences)
    IN  [i \in 1..Len(kept) |->
            [kept[i] EXCEPT !.audio_confidence = NpClip01(ToNumeric(@)),
                            !.lyrics_confidence = NpClip01(ToNumeric(@))]]

\* lines 509-540
LowConfidence(dfc) ==
    [i \in 1..Len(valid_moods) |->
        [mood |-> Capitalize(valid_moods[i]),
         audio |-> GuardedPct(
             CountRows(dfc, LAMBDA r : r.audio = valid_moods[i] /\
                            FLt(r.audio_confidence, AUDIO_LOW_CONF_THRESHOLD)),
             CountRows(dfc, LAMBDA r : r.audio = valid_moods[i])),
         lyrics |-> GuardedPct(
             CountRows(dfc, LAMBDA r : r.lyrics = valid_moods[i] /\
                            FLt(r.lyrics_confidence, LYRICS_LOW_CONF_THRESHOLD)),
             CountRows(dfc, LAMBDA r : r.lyrics = valid_moods[i]))]]

\* lines 543-548
LowConfidenceZeros ==
    [i \in 1..Len(valid_moods) |->
        [mood |-> Capitalize(valid_moods[i]), audio |-> Fin(0), lyrics |-> Fin(0)]]

\* bins = [0.0, 0.2, 0.4, 0.6, 0.8, 1.01]
bins == <<0, 2000000, 4000000, 6000000, 8000000, 10100000>>

labels == <<"0-0.2", "0.2-0.4", "0.4-0.6", "0.6-0.8", "0.8-1.0">>

\* the bins closed on the right: 0.2 falls in the first bin
BinOf_RightClosed(x) ==
    IF x.v = bins[1] THEN 1
    ELSE IF \E i \in 1..Len(labels) : bins[i] < x.v /\ x.v <= bins[i + 1]
         THEN CHOOSE i \in 1..Len(labels) : bins[i] < x.v /\ x.v <= bins[i + 1]
         ELSE 0

\* pd.cut(x, bins, labels, include_lowest=True, right=False): the index of
\* the bin [bins[i], bins[i+1]) holding x, 0 when no bin does
BinOf(x) ==
    IF \E i \in 1..Len(labels) : bins[i] <= x.v /\ x.v < bins[i + 1]
    THEN CHOOSE i \in 1..Len(labels) : bins[i] <= x.v /\ x.v < bins[i + 1]
    ELSE 0

\* lines 565-606
ConfidenceDistribution(dfc) ==
    [i \in 1..Len(labels) |->
        [range |-> labels[i],
         audio |-> CountRows(dfc, LAMBDA r : BinOf(r.audio_confidence) = i),
         lyrics |-> CountRows(dfc, LAMBDA r : BinOf(r.lyrics_confidence) = i)]]

\* lines 607-614
ConfidenceDistributionZeros ==
    [i \in 1..Len(labels) |-> [range |-> labels[i], audio |-> 0, lyrics |-> 0]]

\* jsonify({"error": ...}), code
StatsError(code, msg) == [status |-> code, error |-> msg, payload |-> <<>>]

\* lines 631-642
StatsPayload(df, conf_cols) ==
    [agreement |-> Agreement(df),
     distribution |-> Distribution(df),
     confusion |-> Confusion(df),
     lowConfidence |-> IF conf_cols THEN LowConfidence(DfConf(df))
                       ELSE LowConfidenceZeros,
     confidenceDistribution |-> IF conf_cols THEN ConfidenceDistribution(DfConf(df))
                                ELSE ConfidenceDistributionZeros]

\* the file as pd.read_csv finds it.  file: "missing", "unreadable" (read_csv
\* raises) or "frame"; pred_cols: both prediction columns are there;
\* conf_cols: both confidence columns are there
Corpus(file, pred_cols, conf_cols, rows) ==
    [file |-> file, pred_cols |-> pred_cols, conf_cols |-> conf_cols, rows |-> rows]

\* get_stats()
GetStats(c) ==
    CASE c.file = "missing" -> StatsError(404, "Predictions file not found")
      [] c.file = "unreadable" -> StatsError(500, "Server error")
      [] OTHER ->
         IF ~c.pred_cols THEN StatsError(400, "Missing required columns")
         ELSE IF IsEmpty(SelectSeq(c.rows, NotNull))
              THEN StatsError(400, "No valid predictions found in dataset")
         ELSE IF IsEmpty(DfValid(c.rows))
              THEN StatsError(400, "No valid predictions after normalization and filtering")
         ELSE [status |-> 200, error |-> "",
               payload |-> <<StatsPayload(DfValid(c.rows), c.conf_cols)>>]

-----------------------------------------------------------------------------
(* Inputs of get_stats *)

MaxRows == 3

\* the sequences over S of length 0..n
SeqsUpTo(S, n) == UNION { [1..k -> S] : k \in 0..n }

\* prediction cells as read_csv leaves them: missing, the moods, a mood in
\* another case with blanks around it, a text that is no mood, and a text
\* that normalises to 'nan'
AudioCells ==
    {PyNaN, PyStr(Chars("happy")), PyStr(Chars("chill")), PyStr(Chars("sad")),
     PyStr(Chars("hyped")), PyStr(<<" ", "S", "a", "d", " ">>),
     PyStr(<<"m", "a", "d">>)}

LyricsCells ==
    {PyNaN, PyStr(Chars("happy")), PyStr(Chars("chill")), PyStr(Chars("hyped")),
     PyStr(<<"S", "A", "D", " ">>), PyStr(<<" ", "N", "a", "N">>)}

\* confidence cells: missing, not a number, below 0, the thresholds and the
\* bin boundaries, above 1 and infinite
ConfidenceCells ==
    {NaN, NonNumeric, PInf} \cup
    { Fin(x * (One \div 100)) : x \in {-30, 0, 20, 35, 40, 60, 80, 100, 130} }

\* rows that differ in their predictions
PredictionRows ==
    { Row(ap, lp, Fin(50 * (One \div 100)), Fin(70 * (One \div 100))) :
        ap \in AudioCells, lp \in LyricsCells }

\* rows that differ in their confidences
ConfidenceRows ==
    { Row(PyStr(Chars("happy")), PyStr(Chars("sad")), c[1], c[2]) :
        c \in (ConfidenceCells \X {Fin(60 * (One \div 100))}) \cup
              ({Fin(35 * (One \div 100))} \X ConfidenceCells) \cup
              {<<NaN, NaN>>} }
    \cup
    { Row(PyStr(Chars("sad")), PyStr(Chars("sad")), c[1], c[2]) :
        c \in {<<Fin(20 * (One \div 100)), Fin(60 * (One \div 100))>>,
               <<NaN, Fin(60 * (One \div 100))>>,
               <<Fin(35 * (One \div 100)), NonNumeric>>} }

\* rows of a file without the confidence columns
BareRows ==
    { Row(PyStr(Chars(p[1])), PyStr(Chars(p[2])), NaN, NaN) :
        p \in {<<"happy", "sad">>, <<"sad", "sad">>, <<"chill", "chill">>} }

Corpora ==
    {Corpus("missing", FALSE, FALSE, <<>>), Corpus("unreadable", FALSE, FALSE, <<>>)}
    \cup { Corpus("frame", FALSE, c, rows) :
             c \in BOOLEAN, rows \in SeqsUpTo(BareRows, 1) }
    \cup { Corpus("frame", TRUE, FALSE, rows) : rows \in SeqsUpTo(BareRows, MaxRows) }
    \cup { Corpus("frame", TRUE, TRUE, rows) :
             rows \in SeqsUpTo(PredictionRows, MaxRows)
                      \cup SeqsUpTo(ConfidenceRows, MaxRows) }

NoStats == StatsError(0, "")

InitStats ==
    /\ corpus \in Corpora
    /\ stats = NoStats
    /\ pcT = "request"

\* one GET /api/stats
GetStatsCall ==
    /\ pcT = "request"
    /\ stats' = GetStats(corpus)
    /\ pcT' = "responded"
    /\ UNCHANGED corpus

-----------------------------------------------------------------------------
(* audio_data.normalize_features (train_from_mapped.py holds the same code), *)
(* on a frame of one row: a sequence of cells, one per column               *)

\* the decimal digits, "0" first
Digits == <<"0", "1", "2", "3", "4", "5", "6", "7", "8", "9">>

IsDigit(ch) == \E i \in 1..10 : Digits[i] = ch

DigitVal(ch) == (CHOOSE i \in 1..10 : Digits[i] = ch) - 1

\* U+2212 MINUS SIGN, one character of a text
MinusSign == "U+2212"

\* str(n) of an int n >= 0
RECURSIVE NatStr(_)
NatStr(n) ==
    IF n < 10 THEN <<Digits[n + 1]>>
    ELSE Append(NatStr(n \div 10), Digits[(n % 10) + 1])

\* the number a run of digits writes; 0 for the empty run
RECURSIVE NatOf(_)
NatOf(ds) ==
    IF ds = <<>> THEN 0
    ELSE 10 * NatOf(SubSeq(ds, 1, Len(ds) - 1)) + DigitVal(ds[Len(ds)])

RECURSIVE StripZeros(_)
StripZeros(ds) ==
    IF ds # <<>> /\ ds[Len(ds)] = "0" THEN StripZeros(SubSeq(ds, 1, Len(ds) - 1))
    ELSE ds

\* the digits after the point in repr(x), for the fraction f / One
FracDigits(f) ==
    LET s == StripZeros([i \in 1..7 |-> Digits[((f \div (10 ^ (7 - i))) % 10) + 1]])
    IN  IF s = <<>> THEN <<"0">> ELSE s

\* repr(x) of 0 < x < 0.0001, which Python writes in exponent form ("1e-05")
SciStr(a) ==
    LET ds == StripZeros(NatStr(a))
        e == 8 - Len(NatStr(a))
    IN  <<Head(ds)>> \o (IF Len(ds) > 1 THEN <<".">> \o Tail(ds) ELSE <<>>)
            \o <<"e", "-", "0", Digits[e + 1]>>

\* .astype(str) on a float cell: str(x), as "-5.2", "200.0", "1e-05", "nan"
FloatStr(x) ==
    CASE x.k = "nan" -> <<"n", "a", "n">>
      [] x.k = "pinf" -> <<"i", "n", "f">>
      [] x.k = "ninf" -> <<"-", "i", "n", "f">>
      [] OTHER ->
         LET a == IF x.v < 0 THEN -x.v ELSE x.v
         IN  (IF x.v < 0 THEN <<"-">> ELSE <<>>)
                 \o (IF a # 0 /\ a < One \div 10000 THEN SciStr(a)
                     ELSE NatStr(a \div One) \o <<".">> \o FracDigits(a % One))

\* series.astype(str) on one cell
AsTypeStr(cell) == IF cell.k = "str" THEN cell.s ELSE FloatStr(cell)

\* s.str.replace("−", "-", regex=False)
ReplaceMinus(cs) == [i \in 1..Len(cs) |-> IF cs[i] = MinusSign THEN "-" ELSE cs[i]]

\* s.str.replace(r"[dD][bB]", "", regex=True): matches taken left to right
RECURSIVE RemoveDb(_)
RemoveDb(cs) ==
    CASE Len(cs) < 2 -> cs
      [] cs[1] \in {"d", "D"} /\ cs[2] \in {"b", "B"} -> RemoveDb(SubSeq(cs, 3, Len(cs)))
      [] OTHER -> <<cs[1]>> \o RemoveDb(Tail(cs))

\* s.str.replace(r"[^0-9\.\-\+]", "", regex=True)
KeepNumeric(cs) == SelectSeq(cs, LAMBDA ch : IsDigit(ch) \/ ch \in {".", "-", "+"})

\* the first seven digits after the point, as a multiple of 1 / One
FracOf(fp) ==
    LET n == IF Len(fp) < 7 THEN Len(fp) ELSE 7
    IN  NatOf(SubSeq(fp, 1, n)) * (10 ^ (7 - n))

\* pd.to_numeric(s, errors="coerce") on a text of digits, points and signs:
\* an optional sign, then digits with at most one point and at least one
\* digit; anything else is NaN
ToNumericText(cs) ==
    LET signed == cs # <<>> /\ Head(cs) \in {"-", "+"}
        body == IF signed THEN Tail(cs) ELSE cs
        dots == { i \in 1..Len(body) : body[i] = "." }
        dot == IF dots = {} THEN Len(body) + 1 ELSE CHOOSE i \in dots : TRUE
        ip == SubSeq(body, 1, dot - 1)
        fp == SubSeq(body, dot + 1, Len(body))
        mag == NatOf(ip) * One + FracOf(fp)
    IN  IF /\ Cardinality(dots) <= 1
           /\ \A i \in 1..Len(body) : IsDigit(body[i]) \/ body[i] = "."
           /\ Len(ip) + Len(fp) > 0
        THEN Fin(IF signed /\ Head(cs) = "-" THEN -mag ELSE mag)
        ELSE NaN

\* .clip(-60, 0) on a number or NaN
ClipLoudness(x) ==
    CASE IsNaN(x) -> NaN
      [] x.k = "ninf" -> Fin(-60 * One)
      [] x.k = "pinf" -> Fin(0)
      [] x.v < -60 * One -> Fin(-60 * One)
      [] x.v > 0 -> Fin(0)
      [] OTHER -> x

\* lines 27-31 on the text of one cell
CleanText(cs) ==
    ClipLoudness(ToNumericText(KeepNumeric(RemoveDb(ReplaceMinus(Strip(cs))))))

\* clean_loudness on one cell of the series
clean_loudness(cell) == CleanText(AsTypeStr(cell))

\* an alias table in which a target is itself an alias
Renamer_Chained(c) ==
    CASE c = "Tempo" -> "song"
      [] c = "Loudness (db)" -> "loudness_src"
      [] c = "Loudness (dB)" -> "loudness_src"
      [] c = "Artist(s)" -> "artists"
      [] c = "song" -> "track_name"
      [] OTHER -> c

\* renamer.get(c, c) for the columns of the frames below
Renamer(c) ==
    CASE c = "Tempo" -> "tempo"
      [] c = "Loudness (db)" -> "loudness_src"
      [] c = "Loudness (dB)" -> "loudness_src"
      [] c = "Artist(s)" -> "artists"
      [] c = "song" -> "track_name"
      [] OTHER -> c

\* df.rename(columns=present)
Rename(df) == [i \in 1..Len(df) |-> Cell(Renamer(df[i].col), df[i].val)]

\* the positions of the columns called c
Positions(df, c) == { i \in 1..Len(df) : df[i].col = c }

\* df[c].notna().sum() for a column that occurs once
NotNaCount(df, c) ==
    LET i == CHOOSE j \in Positions(df, c) : TRUE
    IN  IF IsNaN(df[i].val) THEN 0 ELSE 1

\* `c in df.columns and df[c].notna().sum() > 0` as the test of an `if`:
\* "raises" when the label occurs twice (df[c] is a frame, the sum a Series
\* and its truth value a ValueError)
HasValues(df, c) ==
    CASE Positions(df, c) = {} -> "no"
      [] Cardinality(Positions(df, c)) > 1 -> "raises"
      [] NotNaCount(df, c) > 0 -> "yes"
      [] OTHER -> "no"

\* need_loudness, line 52
NeedLoudness(df) ==
    CASE Positions(df, "loudness") = {} -> "yes"
      [] Cardinality(Positions(df, "loudness")) > 1 -> "raises"
      [] NotNaCount(df, "loudness") = 0 -> "yes"
      [] OTHER -> "no"

\* the column the if / elif chain of lines 55-60 picks as src: its name,
\* "" when none has a value, "raises" when a test raises
LoudnessSource(df) ==
    LET RECURSIVE Pick(_)
        Pick(names) ==
            IF names = <<>> THEN ""
            ELSE CASE HasValues(df, Head(names)) = "raises" -> "raises"
                   [] HasValues(df, Head(names)) = "yes" -> Head(names)
                   [] OTHER -> Pick(Tail(names))
    IN  Pick(<<"loudness_src", "Loudness (db)", "Loudness (dB)">>)

\* df["loudness"] = value: the column is replaced in place, or appended
SetLoudness(df, value) ==
    IF Positions(df, "loudness") = {} THEN Append(df, Cell("loudness", value))
    ELSE [i \in 1..Len(df) |->
            IF df[i].col = "loudness" THEN Cell("loudness", value) ELSE df[i]]

\* c.startswith("Good for ") or c.startswith("Similar ") or
\* c.startswith("Similarity Score"), over the names of the frames below
HasLeakPrefix(c) == c \in {"Good for Party", "Similar Artist 1", "Similarity Score 1"}

\* df.drop(columns=[c for c in df.columns if c == "Album" or <leak prefix>])
DropLeaks(df) ==
    SelectSeq(df, LAMBDA x : ~(x.col = "Album" \/ HasLeakPrefix(x.col)))

Raised == [ok |-> FALSE, frame |-> <<>>]
Returned(df) == [ok |-> TRUE, frame |-> df]

\* normalize_features(df): the frame returned, or the exception
normalize_features(df) ==
    LET renamed == Rename(df)
    IN  CASE NeedLoudness(renamed) = "raises" -> Raised
          [] NeedLoudness(renamed) = "no" -> Returned(DropLeaks(renamed))
          [] OTHER ->
             CASE LoudnessSource(renamed) = "raises" -> Raised
               [] LoudnessSource(renamed) = "" -> Returned(DropLeaks(renamed))
               [] OTHER ->
                  LET src == CHOOSE j \in Positions(renamed, LoudnessSource(renamed)) : TRUE
                  IN  Returned(DropLeaks(
                          SetLoudness(renamed, clean_loudness(renamed[src].val))))

-----------------------------------------------------------------------------
(* Inputs of normalize_features *)

\* the columns a frame may carry, in the order of the file
FrameColumns ==
    <<"Tempo", "tempo", "Loudness (db)", "Loudness (dB)", "loudness_src",
      "loudness", "song", "Album", "Similar Artist 1">>

LoudnessColumns == {"Loudness (db)", "Loudness (dB)", "loudness_src", "loudness"}

\* the cells of a loudness column: missing, a number, a number with its
\* unit, a number above 0 and a text without digits
LoudnessCells ==
    {NaN, Fin(-52 * (One \div 10)), PyStr(<<"-", "5", ".", "2", " ", "d", "B">>),
     Fin(200 * One), PyStr(<<"N", "/", "A">>)}

\* the mark of a column the frame does not have
Absent == [k |-> "absent", v |-> 0]

\* every frame with a subset of FrameColumns, the loudness columns holding
\* any of LoudnessCells and the other columns the number 1
InputFrames ==
    { SelectSeq([i \in 1..Len(FrameColumns) |->
                    Cell(FrameColumns[i],
                         IF FrameColumns[i] \in LoudnessColumns
                         THEN pick[FrameColumns[i]] ELSE Fin(One))],
                LAMBDA x : IF x.col \in LoudnessColumns THEN x.val # Absent
                           ELSE x.col \in others)
        : pick \in [LoudnessColumns -> LoudnessCells \cup {Absent}],
          others \in SUBSET {"Tempo", "tempo", "song", "Album", "Similar Artist 1"} }

InitNormalize ==
    /\ nf_in \in InputFrames
    /\ nf_out = Raised
    /\ nf_twice = Raised
    /\ pcN = "call"

\* df = normalize_features(df)
NormalizeCall ==
    /\ pcN = "call"
    /\ nf_out' = normalize_features(nf_in)
    /\ pcN' = IF normalize_features(nf_in).ok THEN "returned" ELSE "raised"
    /\ UNCHANGED <<nf_in, nf_twice>>

\* normalize_features applied to the frame the first call returned
NormalizeAgain ==
    /\ pcN = "returned"
    /\ nf_twice' = normalize_features(nf_out.frame)
    /\ pcN' = "twice"
    /\ UNCHANGED <<nf_in, nf_out>>

-----------------------------------------------------------------------------
(* Inputs of clean_loudness: one cell of the source column *)

LoudnessPrefixes == { <<>>, <<" ">>, <<"-">>, <<MinusSign>>, <<"+">> }

\* numerals, and texts that are none
LoudnessNumerals ==
    { <<"5", ".", "2">>, <<"2", "0", "0">>, <<"7", "0">>, <<"6", "0">>, <<"0">>,
      <<".", "5">>, <<"5", ".">>, <<>>, <<".">>, <<"1", "e", "-", "0", "5">>,
      <<"1", "e", "2">>, <<"5", "-", "3">>, <<"N", "/", "A">>, <<"n", "5">> }

LoudnessSuffixes ==
    { <<>>, <<"d", "B">>, <<" ", "d", "B">>, <<"d", "b">>, <<" ", "D", "B", " ">> }

LoudnessTexts ==
    { p \o n \o u : p \in LoudnessPrefixes, n \in LoudnessNumerals,
                    u \in LoudnessSuffixes }

\* the cells of a numeric column: -70, -60, -5.2, -0.00001, 0, 0.00001, 0.5
\* and 200, and the special values
LoudnessFloats ==
    {NaN, PInf, NInf}
        \cup { Fin(v) : v \in { -70 * One, -60 * One, -52 * (One \div 10), -100, 0,
                               100, One \div 2, 200 * One } }

SeriesCells == LoudnessFloats \cup { PyStr(t) : t \in LoudnessTexts }

InitLoudness ==
    /\ series \in SeriesCells
    /\ cleaned = NaN
    /\ pcC = "call"

\* clean_loudness(src)
CleanLoudnessCall ==
    /\ pcC = "call"
    /\ cleaned' = clean_loudness(series)
    /\ pcC' = "returned"
    /\ UNCHANGED series

-----------------------------------------------------------------------------
(* prep_spotify: the label mapping, lines 13-43; a frame is the sequence of *)
(* the cells of its "emotion" column                                        *)

\* .astype(str).str.strip().str.lower().replace({"nan": pd.NA}) on one cell
RawMood(cell) ==
    LET t == LowerStr(Strip(IF cell.k = "str" THEN cell.s ELSE <<"n", "a", "n">>))
    IN  IF t = <<"n", "a", "n">> THEN PyNaN ELSE PyStr(t)

\* MOOD_MAP in the order of the dict; "None" is the value None
MOOD_MAP ==
    <<[key |-> <<"j", "o", "y">>, value |-> "happy"],
      [key |-> <<"l", "o", "v", "e">>, value |-> "chill"],
      [key |-> <<"s", "u", "r", "p", "r", "i", "s", "e">>, value |-> "happy"],
      [key |-> <<"i", "n", "t", "e", "r", "e", "s", "t">>, value |-> "happy"],
      [key |-> <<"s", "a", "d", "n", "e", "s", "s">>, value |-> "sad"],
      [key |-> <<"a", "n", "g", "e", "r">>, value |-> "hyped"],
      [key |-> <<"a", "n", "g", "r", "y">>, value |-> "hyped"],
      [key |-> <<"f", "e", "a", "r">>, value |-> "hyped"],
      [key |-> <<"t", "h", "i", "r", "s", "t">>, value |-> "hyped"],
      [key |-> <<"t", "r", "u", "e">>, value |-> "None"],
      [key |-> <<"p", "i", "n", "k">>, value |-> "None"],
      [key |-> <<"c", "o", "n", "f", "u", "s", "i", "o", "n">>, value |-> "None"]>>

\* a mapping that coerces a label it does not know to chill
MapMood_Coerce(raw) ==
    IF raw.k = "str" /\ \E i \in 1..Len(MOOD_MAP) : MOOD_MAP[i].key = raw.s
    THEN MOOD_MAP[CHOOSE i \in 1..Len(MOOD_MAP) : MOOD_MAP[i].key = raw.s].value
    ELSE "chill"

\* df["raw_mood"].map(MOOD_MAP) on one cell: the value of the key, "None"
\* for a None value, a missing cell or a label that is not a key
MapMood(raw) ==
    IF raw.k = "str" /\ \E i \in 1..Len(MOOD_MAP) : MOOD_MAP[i].key = raw.s
    THEN MOOD_MAP[CHOOSE i \in 1..Len(MOOD_MAP) : MOOD_MAP[i].key = raw.s].value
    ELSE "None"

TARGETS == {"happy", "chill", "sad", "hyped"}

\* a row of df after lines 18 and 39; `row` is its place in the file
MappedRow(cells, i) ==
    [row |-> i, emotion |-> cells[i], raw_mood |-> RawMood(cells[i]),
     mood |-> MapMood(RawMood(cells[i]))]

\* df = df[df["mood"].isin(TARGETS)].copy()
KeepTargets(cells) ==
    SelectSeq([i \in 1..Len(cells) |-> MappedRow(cells, i)],
              LAMBDA r : r.mood \in TARGETS)

\* the cells of the "emotion" column as pd.read_csv gives them
EmotionCells ==
    {PyNaN,
      PyStr(<<"j", "o", "y">>),
      PyStr(<<" ", "l", "o", "v", "e", " ">>),
      PyStr(<<"S", "a", "d", "n", "e", "s", "s">>),
      PyStr(<<"A", "n", "g", "e", "r">>),
      PyStr(<<"c", "o", "n", "f", "u", "s", "i", "o", "n">>),
      PyStr(<<"t", "r", "u", "e">>),
      PyStr(<<"h", "a", "p", "p", "y">>),
      PyStr(<<"c", "a", "l", "m">>),
      PyStr(<<" ", "N", "a", "N", " ">>)}

InitPrep ==
    /\ raw_df \in SeqsUpTo(EmotionCells, MaxRows)
    /\ mapped_df = <<>>
    /\ pcP = "loaded"

\* lines 13-43 of the script
MapLabels ==
    /\ pcP = "loaded"
    /\ mapped_df' = KeepTargets(raw_df)
    /\ pcP' = "mapped"
    /\ UNCHANGED raw_df

-----------------------------------------------------------------------------
(* FreeLyricsClassifier.classify_dataset, lines 87-135.  A frame is its     *)
(* index, whether it has the lyrics column, and its rows; a row holds the   *)
(* lyrics cell and the compound score the analyzer gives for that text      *)

\* the max_songs argument: None or an int
NoMaxSongs == [k |-> "none", v |-> 0]
MaxSongs(n) == [k |-> "int", v |-> n]

\* an index of int labels, or of str labels (labels: their ranks)
IntIndex(ls) == [kind |-> "int", labels |-> ls]
StrIndex(ls) == [kind |-> "str", labels |-> ls]

DatasetFrame(idx, has, rs) == [index |-> idx, has_lyrics |-> has, rows |-> rs]

\* `if max_songs: df_to_process = df.head(max_songs)` `else: df.copy()`: the
\* number of rows of df_to_process (max_songs >= 0)
ToProcess(df, ms) ==
    IF ms.k = "int" /\ ms.v # 0
    THEN IF ms.v < Len(df.rows) THEN ms.v ELSE Len(df.rows)
    ELSE Len(df.rows)

\* `(idx + 1) % 100` raises TypeError for a label that is a str
ProgressRaises(df) == df.index.kind = "str"

\* a row of result_df
ResultRow(label, ly, m, c) ==
    [label |-> label, lyrics |-> ly, lyrics_prediction |-> m, lyrics_confidence |-> c]

\* result_df after lines 121-129: the processed rows carry what
\* classify_lyrics returned, the others None and 0.0
ResultFrame(df, n) ==
    [i \in 1..Len(df.rows) |->
        IF i <= n
        THEN LET r == ClassifyLyrics(df.rows[i].lyrics, df.rows[i].compound)
             IN  ResultRow(df.index.labels[i], df.rows[i].lyrics, r.mood, r.confidence)
        ELSE ResultRow(df.index.labels[i], df.rows[i].lyrics, "None", Fin(0))]

\* the classify_lyrics calls among the first n rows that reach
\* `self.api_calls += 1`
CountedCalls(df, n) ==
    Cardinality({ i \in 1..n : CountsCall(df.rows[i].lyrics) })

DatasetRaised(err, calls, counted) ==
    [ok |-> FALSE, error |-> err, classified |-> calls, counted |-> counted,
     index_kind |-> "", frame |-> <<>>]

\* classify_dataset(df, max_songs=ms): the frame returned or the exception
\* raised, with the number of classify_lyrics calls made
classify_dataset(df, ms) ==
    IF ~df.has_lyrics THEN DatasetRaised("ValueError", 0, 0)
    ELSE IF ToProcess(df, ms) > 0 /\ ProgressRaises(df)
    THEN DatasetRaised("TypeError", 1, CountedCalls(df, 1))
    ELSE [ok |-> TRUE, error |-> "", classified |-> ToProcess(df, ms),
          counted |-> CountedCalls(df, ToProcess(df, ms)),
          index_kind |-> df.index.kind,
          frame |-> ResultFrame(df, ToProcess(df, ms))]

\* the lyrics cells of a frame with the compound score of their text
DatasetCells ==
    { [lyrics |-> PyNaN, compound |-> Fin(0)],
      [lyrics |-> PyStr(<<>>), compound |-> Fin(0)],
      [lyrics |-> PyStr(<<" ">>), compound |-> Fin(0)],
      [lyrics |-> PyStr(<<"l", "i", "t">>), compound |-> Fin(7000 * 1000)],
      [lyrics |-> PyStr(<<"i", "l", "l">>), compound |-> Fin(-6000 * 1000)],
      [lyrics |-> PyStr(<<"i">>), compound |-> Fin(0)] }

\* the labels of n rows: a RangeIndex, the labels left by a filter, or texts
DatasetIndexes(n) ==
    { IntIndex([i \in 1..n |-> i - 1]), IntIndex([i \in 1..n |-> 10 - 3 * i]),
      StrIndex([i \in 1..n |-> i]) }

DatasetFrames ==
    { DatasetFrame(idx, has, rs) :
        idx \in UNION { DatasetIndexes(n) : n \in 0..MaxRows },
        has \in BOOLEAN,
        rs \in SeqsUpTo(DatasetCells, MaxRows) }

NoDatasetResult == DatasetRaised("", 0, 0)

InitDataset ==
    /\ ds_df \in { f \in DatasetFrames : Len(f.index.labels) = Len(f.rows) }
    /\ max_songs \in {NoMaxSongs} \cup { MaxSongs(n) : n \in 0..MaxRows }
    /\ ds_out = NoDatasetResult
    /\ api_calls = 0
    /\ pcD = "call"

\* classifier.classify_dataset(df, max_songs=max_songs)
ClassifyDatasetCall ==
    /\ pcD = "call"
    /\ ds_out' = classify_dataset(ds_df, max_songs)
    /\ api_calls' = api_calls + classify_dataset(ds_df, max_songs).counted
    /\ pcD' = IF classify_dataset(ds_df, max_songs).ok THEN "returned" ELSE "raised"
    /\ UNCHANGED <<ds_df, max_songs>>

-----------------------------------------------------------------------------
(* train_audio_model.main, lines 46-101 (train_from_mapped.main, lines      *)
(* 149-189, holds the same loop): model selection and the saved artifact    *)

\* the keys of `candidates` in the order of the dict
candidates == <<"LogReg", "KNN", "RF">>

\* `best_name, best_pipe, best_cv = None, None, -1.0`; each pipeline is
\* named by its key
NoBest == [name |-> "None", pipe |-> "None", cv |-> Fin(-One)]

\* the test of the loop with >= for >
Better_OrEqual(mean, best_cv) == FLe(best_cv, mean) /\ ~IsNaN(mean)

\* `if cv_scores.mean() > best_cv`
Better(mean, best_cv) == FGt(mean, best_cv)

\* the body of the loop for candidate `name` with mean CV accuracy `mean`
Select(b, name, mean) ==
    IF Better(mean, b.cv) THEN [name |-> name, pipe |-> name, cv |-> mean] ELSE b

NoArtifact == [saved |-> FALSE, pipeline |-> "None"]

\* joblib.dump({"pipeline": best_pipe, ...}, OUT_MODEL)
Artifact(b) == [saved |-> TRUE, pipeline |-> b.pipe]

\* mean accuracies of cross_val_score: numbers in [0, 1], or NaN when a fold
\* failed to fit (error_score = nan)
CvMeans == { NaN, Fin(50 * (One \div 100)), Fin(60 * (One \div 100)),
             Fin(70 * (One \div 100)) }

TestAccuracies == { Fin(40 * (One \div 100)), Fin(90 * (One \div 100)) }

InitTrain ==
    /\ cv_mean \in [1..Len(candidates) -> CvMeans]
    /\ test_acc \in [1..Len(candidates) -> TestAccuracies]
    /\ best = NoBest
    /\ cand = 1
    /\ artifact = NoArtifact
    /\ pcG = "loop"

\* one pass of `for name, pipe in candidates.items()`
TrainCandidate ==
    /\ pcG = "loop"
    /\ best' = Select(best, candidates[cand], cv_mean[cand])
    /\ cand' = cand + 1
    /\ pcG' = IF cand = Len(candidates) THEN "report" ELSE "loop"
    /\ UNCHANGED <<cv_mean, test_acc, artifact>>

\* lines 83-101: `best_pipe.predict(X_test)` raises AttributeError when no
\* candidate was selected; otherwise the report is printed and the artifact
\* saved
SaveModel ==
    /\ pcG = "report"
    /\ IF best.pipe = "None"
       THEN artifact' = artifact /\ pcG' = "raised"
       ELSE artifact' = Artifact(best) /\ pcG' = "saved"
    /\ UNCHANGED <<cv_mean, test_acc, best, cand>>

-----------------------------------------------------------------------------
(* classify_lyrics, lines 75-78: the final clamp and NaN check, applied to  *)
(* a value of `confidence`                                                   *)

\* values of `confidence` before line 76: -0.10 to 1.10 in steps of 0.02,
\* and the special values
ConfidenceValues ==
    {NaN, PInf, NInf} \cup { Fin(2 * k * (One \div 100)) : k \in -5..55 }

InitClamp ==
    /\ conf_in \in ConfidenceValues
    /\ conf_out = Fin(0)
    /\ pcK = "computed"

\* lines 76-78
ClampCall ==
    /\ pcK = "computed"
    /\ conf_out' = ClampConfidence(conf_in)
    /\ pcK' = "clamped"
    /\ UNCHANGED conf_in

-----------------------------------------------------------------------------
(* The flags of one song on the two paths: api_server.predict (lines        *)
(* 147-168) and run_lyrics_comparison.main (lines 240-271), given the audio *)
(* confidence and margin and the lyrics confidence of the song              *)

SongConfidences(ac, am, lc) ==
    [audio_confidence |-> ac, audio_margin |-> am, lyrics_confidence |-> lc]

\* the flags predict puts into its response: "lowConfidence" of the audio
\* and of the lyrics result, under the names of the batch columns
RequestFlags(x) ==
    [f \in {"audio_low_confidence", "lyrics_low_confidence"} |->
        IF f = "audio_low_confidence"
        THEN Prediction("chill", x.audio_confidence, AUDIO_LOW_CONF_THRESHOLD).lowConfidence
        ELSE Prediction("chill", x.lyrics_confidence, LYRICS_LOW_CONF_THRESHOLD).lowConfidence]

\* the flag columns main writes
BatchFlags(x) ==
    [f \in {"audio_low_confidence", "audio_borderline", "lyrics_low_confidence"} |->
        CASE f = "audio_low_confidence"
                -> FLt(x.audio_confidence, BATCH_AUDIO_LOW_CONF_THRESHOLD)
          [] f = "audio_borderline" -> AudioBorderline(x.audio_margin)
          [] OTHER -> FLt(x.lyrics_confidence, BATCH_LYRICS_LOW_CONF_THRESHOLD)]

\* confidences and margins in hundredths: each threshold, its neighbours
\* and both ends
FlagGrid == { 0, 14, 15, 16, 34, 35, 36, 59, 60, 61, 100 }

NoFlags == [f \in {} |-> FALSE]

InitFlags ==
    /\ song_conf \in { SongConfidences(Fin(a * (One \div 100)), Fin(m * (One \div 100)),
                                       Fin(l * (One \div 100))) :
                         a \in FlagGrid, m \in FlagGrid, l \in FlagGrid }
    /\ request_flags = NoFlags
    /\ batch_flags = NoFlags
    /\ pcW = {}

\* predict answers for the song
RequestPath ==
    /\ "request" \notin pcW
    /\ request_flags' = RequestFlags(song_conf)
    /\ pcW' = pcW \cup {"request"}
    /\ UNCHANGED <<song_conf, batch_flags>>

\* main writes the row of the song
BatchPath ==
    /\ "batch" \notin pcW
    /\ batch_flags' = BatchFlags(song_conf)
    /\ pcW' = pcW \cup {"batch"}
    /\ UNCHANGED <<song_conf, request_flags>>

-----------------------------------------------------------------------------
(* Specifications *)

IdleLyrics ==
    /\ lyrics = PyNone
    /\ compound = Fin(0)
    /\ lyr_out = NoResult
    /\ pcL = "idle"

IdleAudio ==
    /\ df_cols = {}
    /\ classes = <<>>
    /\ pipe = PipeRaises
    /\ audio_info = NoAudioInfo
    /\ top_idx = <<0, 0>>
    /\ df_row = <<>>
    /\ X = <<>>
    /\ batch_row = NoBatchRow
    /\ pcA = "idle"

IdleServer ==
    /\ model_data = NoModel
    /\ lyrics_classifier = FALSE
    /\ req = NoRequest
    /\ resp = NoResponse
    /\ log = NoLog
    /\ pcS = "idle"

IdleStats ==
    /\ corpus = Corpus("missing", FALSE, FALSE, <<>>)
    /\ stats = NoStats
    /\ pcT = "idle"

IdleNormalize ==
    /\ nf_in = <<>>
    /\ nf_out = Raised
    /\ nf_twice = Raised
    /\ pcN = "idle"

IdleLoudness ==
    /\ series = NaN
    /\ cleaned = NaN
    /\ pcC = "idle"

IdlePrep ==
    /\ raw_df = <<>>
    /\ mapped_df = <<>>
    /\ pcP = "idle"

IdleDataset ==
    /\ ds_df = DatasetFrame(IntIndex(<<>>), FALSE, <<>>)
    /\ max_songs = NoMaxSongs
    /\ ds_out = NoDatasetResult
    /\ pcD = "idle"

IdleTrain ==
    /\ cv_mean = <<>>
    /\ test_acc = <<>>
    /\ best = NoBest
    /\ cand = 0
    /\ artifact = NoArtifact
    /\ pcG = "idle"

IdleClamp ==
    /\ conf_in = Fin(0)
    /\ conf_out = Fin(0)
    /\ pcK = "idle"

IdleFlags ==
    /\ song_conf = SongConfidences(Fin(0), Fin(0), Fin(0))
    /\ request_flags = NoFlags
    /\ batch_flags = NoFlags
    /\ pcW = {}

\* the components below at rest
IdleX ==
    IdleLoudness /\ IdlePrep /\ IdleDataset /\ IdleTrain /\ IdleClamp /\ IdleFlags

\* the components above at rest
IdleBase ==
    /\ IdleLyrics
    /\ api_calls = 0
    /\ IdleAudio
    /\ IdleServer
    /\ IdleStats
    /\ IdleNormalize

\* the API server: module import, then requests
Init ==
    /\ IdleLyrics
    /\ IdleAudio
    /\ IdleStats
    /\ IdleNormalize
    /\ IdleX
    /\ api_calls = 0
    /\ model_data = NoModel
    /\ lyrics_classifier = FALSE
    /\ req = NoRequest
    /\ resp = NoResponse
    /\ log = NoLog
    /\ pcS = "boot"

Next ==
    \/ LoadModels /\ UNCHANGED <<varsL, varsA, varsT, varsN, varsX>>
    \/ Predict /\ UNCHANGED <<lyrics, compound, lyr_out, pcL, varsA, varsT, varsN, varsX>>
    \/ FinishRequest /\ UNCHANGED <<lyrics, compound, lyr_out, pcL, varsA, varsT, varsN, varsX>>

Spec == Init /\ [][Next]_vars

\* the lyrics heuristic applied to one input
InitL == InitLyrics /\ IdleAudio /\ IdleServer /\ IdleStats /\ IdleNormalize /\ IdleX

NextL == ClassifyLyricsCall /\ UNCHANGED <<varsA, varsS, varsT, varsN, varsX>>

SpecLyrics == InitL /\ [][NextL]_vars

\* the audio confidence extraction applied to one row
InitA ==
    /\ InitAudio /\ IdleLyrics /\ api_calls = 0 /\ IdleServer /\ IdleStats
    /\ IdleNormalize /\ IdleX

NextA ==
    \/ GetAudioPredictionsCall /\ UNCHANGED <<varsL, varsS, varsT, varsN, varsX>>
    \/ MainAudioColumns /\ UNCHANGED <<varsL, varsS, varsT, varsN, varsX>>

SpecAudio == InitA /\ [][NextA]_vars

\* the same call on frames of every column order
InitF ==
    /\ InitFrame /\ IdleLyrics /\ api_calls = 0 /\ IdleServer /\ IdleStats
    /\ IdleNormalize /\ IdleX

SpecFrame == InitF /\ [][NextA]_vars

\* the statistics endpoint answering one request on a file
InitT ==
    /\ InitStats /\ IdleLyrics /\ IdleAudio /\ api_calls = 0 /\ IdleServer
    /\ IdleNormalize /\ IdleX

NextT == GetStatsCall /\ UNCHANGED <<varsL, varsA, varsS, varsN, varsX>>

SpecStats == InitT /\ [][NextT]_vars

\* the feature normalizer called on a frame, then on its own result
InitN ==
    /\ InitNormalize /\ IdleLyrics /\ IdleAudio /\ api_calls = 0 /\ IdleServer
    /\ IdleStats /\ IdleX

NextN ==
    \/ NormalizeCall /\ UNCHANGED <<varsL, varsA, varsS, varsT, varsX>>
    \/ NormalizeAgain /\ UNCHANGED <<varsL, varsA, varsS, varsT, varsX>>

SpecNormalize == InitN /\ [][NextN]_vars

\* clean_loudness applied to one cell
InitC ==
    InitLoudness /\ IdleBase /\ IdlePrep /\ IdleDataset /\ IdleTrain /\ IdleClamp
        /\ IdleFlags

NextC == CleanLoudnessCall /\ UNCHANGED <<varsBase, varsP, varsD, varsG, varsK, varsW>>

SpecLoudness == InitC /\ [][NextC]_vars

\* the label mapping of prep_spotify applied to one file
InitP ==
    InitPrep /\ IdleBase /\ IdleLoudness /\ IdleDataset /\ IdleTrain /\ IdleClamp
        /\ IdleFlags

NextP == MapLabels /\ UNCHANGED <<varsBase, varsC, varsD, varsG, varsK, varsW>>

SpecPrep == InitP /\ [][NextP]_vars

\* classify_dataset called on one frame by a fresh classifier
InitD ==
    /\ InitDataset /\ IdleLyrics /\ IdleAudio /\ IdleServer /\ IdleStats
    /\ IdleNormalize /\ IdleLoudness /\ IdlePrep /\ IdleTrain /\ IdleClamp
    /\ IdleFlags

NextD ==
    ClassifyDatasetCall
        /\ UNCHANGED <<lyrics, compound, lyr_out, pcL, varsA, varsS, varsT, varsN,
                       varsC, varsP, varsG, varsK, varsW>>

SpecDataset == InitD /\ [][NextD]_vars

\* the training script from the selection loop to the saved artifact
InitG ==
    InitTrain /\ IdleBase /\ IdleLoudness /\ IdlePrep /\ IdleDataset /\ IdleClamp
        /\ IdleFlags

NextG ==
    \/ TrainCandidate /\ UNCHANGED <<varsBase, varsC, varsP, varsD, varsK, varsW>>
    \/ SaveModel /\ UNCHANGED <<varsBase, varsC, varsP, varsD, varsK, varsW>>

SpecTrain == InitG /\ [][NextG]_vars

\* the clamp of classify_lyrics applied to one value
InitK ==
    InitClamp /\ IdleBase /\ IdleLoudness /\ IdlePrep /\ IdleDataset /\ IdleTrain
        /\ IdleFlags

NextK == ClampCall /\ UNCHANGED <<varsBase, varsC, varsP, varsD, varsG, varsW>>

SpecClamp == InitK /\ [][NextK]_vars

\* one song on the request path and on the batch path, in either order
InitW ==
    InitFlags /\ IdleBase /\ IdleLoudness /\ IdlePrep /\ IdleDataset /\ IdleTrain
        /\ IdleClamp

NextW ==
    \/ RequestPath /\ UNCHANGED <<varsBase, varsC, varsP, varsD, varsG, varsK>>
    \/ BatchPath /\ UNCHANGED <<varsBase, varsC, varsP, varsD, varsG, varsK>>

SpecFlags == InitW /\ [][NextW]_vars

-----------------------------------------------------------------------------
(* Properties *)

Responded200 == pcS = "responded" /\ resp.status = 200

\* C1: a successful predict response that carries no lyrics prediction has
\* agree = null, never false (or true).
C1_AgreeNullWithoutLyrics ==
    /\ (Responded200 /\ ~resp.lyrics.some) => resp.agree = "null"
    /\ (Responded200 /\ log.lyrics \in {"skipped", "raised"}) =>
           (~resp.lyrics.some /\ resp.agree = "null")

\* C1 witness: the classifier raised on the lyrics, the audio prediction is
\* there, and the response says agree = null.
C1_Witness ==
    /\ Responded200
    /\ log.lyrics = "raised"
    /\ resp.audio.some
    /\ ~resp.lyrics.some
    /\ resp.agree = "null"

\* C2: in a successful predict response agree is true iff both predictions
\* exist with equal moods, and false iff both exist with different moods (so
\* never false when the audio prediction is null).
C2_AgreeIffBothExist ==
    Responded200 =>
        /\ resp.agree = "true" <=>
             (resp.audio.some /\ resp.lyrics.some /\ resp.audio.mood = resp.lyrics.mood)
        /\ resp.agree = "false" <=>
             (resp.audio.some /\ resp.lyrics.some /\ resp.audio.mood # resp.lyrics.mood)

AudioReturned == pcA \in {"returned", "written"} /\ audio_info.ok

\* C3: every returned row has confidence >= second_confidence and
\* margin = confidence - second_confidence >= 0.
C3_ConfidenceOrdering ==
    AudioReturned =>
        /\ FLe(audio_info.second_confidence, audio_info.confidence)
        /\ audio_info.margin = FSub(audio_info.confidence, audio_info.second_confidence)
        /\ FLe(Fin(0), audio_info.margin)

\* C4: with at least two classes, the second_choice label of a returned row
\* differs from its predicted mood.
C4_SecondChoiceDiffers ==
    (AudioReturned /\ Len(classes) >= 2) =>
        audio_info.second_choice # audio_info.predictions

\* C5: the reported mood of a returned row is the class decoded from the
\* index whose probability is reported as confidence (top1_idx).
C5_MoodIsTop1Class ==
    AudioReturned => audio_info.predictions = classes[top_idx[1]]

InUnit(x) == IsFin(x) /\ 0 <= x.v /\ x.v <= One

\* C6: confidence, second_confidence and margin of a returned row are finite
\* numbers in [0, 1], and a NaN (in the top entry, the runner-up or their
\* difference) is surfaced as 0.
C6_FiniteInUnitInterval ==
    AudioReturned =>
        /\ InUnit(audio_info.confidence)
        /\ InUnit(audio_info.second_confidence)
        /\ InUnit(audio_info.margin)
        /\ IsNaN(pipe.row[top_idx[1]]) => audio_info.confidence = Fin(0)
        /\ IsNaN(pipe.row[top_idx[2]]) => audio_info.second_confidence = Fin(0)
        /\ IsNaN(FSub(pipe.row[top_idx[1]], pipe.row[top_idx[2]]))
             => audio_info.margin = Fin(0)

\* C6 witness: a row whose top entry is NaN and whose runner-up is +Infinity
\* has been returned with confidence 0 and second_confidence 1.
C6_Witness ==
    /\ AudioReturned
    /\ IsNaN(pipe.row[top_idx[1]])
    /\ pipe.row[top_idx[2]] = PInf
    /\ audio_info.confidence = Fin(0)
    /\ audio_info.second_confidence = Fin(One)
    /\ audio_info.margin = Fin(0)

\* lyrics is a text with at least one character that is not whitespace
NonEmptyText(ly) == ly.k = "str" /\ \E i \in 1..Len(ly.s) : ly.s[i] # " "

\* an energetic keyword occurs in the lowercased text
KeywordOccurs(ly) ==
    \E kw \in hyped_keywords : Contains(kw, [i \in 1..Len(ly.s) |-> Lower(ly.s[i])])

Abs(x) == IF x < 0 THEN -x ELSE x

\* the threshold table over the compound score c (in units of 1/One)
TableRow(c) ==
    CASE c > 5000000 -> Result("happy", Fin(c))
      [] 1000000 < c /\ c <= 5000000 ->
            Result("chill", Fin(5000000 + ((c - 1000000) \div 1000) * 625))
      [] c < -5000000 -> Result("sad", Fin(Abs(c)))
      [] -5000000 <= c /\ c < -1000000 ->
            IF Abs(c) > 3000000 THEN Result("sad", Fin(Abs(c)))
            ELSE Result("chill", Fin(5500000 + (3000000 - Abs(c)) \div 2))
      [] -1000000 <= c /\ c <= 1000000 -> Result("chill", Fin(6500000))

\* C7: for non-empty lyrics on which the override does not apply (no keyword
\* in the lowercased text, or compound <= 0.2) classify_lyrics returns the
\* row of the threshold table for the compound score, and never hyped.
C7_ThresholdTable ==
    (/\ pcL = "returned"
     /\ NonEmptyText(lyrics)
     /\ ~(KeywordOccurs(lyrics) /\ compound.v > 2000000))
    => /\ lyr_out = TableRow(compound.v)
       /\ lyr_out.mood # "hyped"

\* C7 witness: a text holding a keyword, compound exactly 0.2: the override
\* does not apply and the table's chill row (0.5 + 0.1 * 0.625) is returned.
C7_Witness ==
    /\ pcL = "returned"
    /\ NonEmptyText(lyrics)
    /\ KeywordOccurs(lyrics)
    /\ compound = Fin(2000000)
    /\ lyr_out = Result("chill", Fin(5625000))

\* C8: a keyword in the lowercased text and compound > 0.2 give hyped with
\* confidence min(0.9, |compound| + 0.2), whatever row the table matched.
C8_KeywordOverride ==
    (/\ pcL = "returned"
     /\ lyrics.k = "str"
     /\ KeywordOccurs(lyrics)
     /\ compound.v > 2000000)
    => lyr_out = Result("hyped",
                        Fin(IF Abs(compound.v) + 2000000 < 9000000
                            THEN Abs(compound.v) + 2000000 ELSE 9000000))

\* C8 witness: an upper-case keyword, compound 0.5001 (the table's happy
\* row): hyped with confidence 0.7001 has been returned.
C8_Witness ==
    /\ pcL = "returned"
    /\ lyrics = PyStr(<<"L", "i", "t", " ">>)
    /\ compound = Fin(5001000)
    /\ lyr_out = Result("hyped", Fin(7001000))

\* C9: missing (None, NaN), empty or whitespace-only lyrics give exactly
\* ('chill', 0.1).
C9_MissingLyricsDefault ==
    (/\ pcL = "returned"
     /\ \/ lyrics.k \in {"none", "nan"}
        \/ lyrics.k = "str" /\ \A i \in 1..Len(lyrics.s) : lyrics.s[i] = " ")
    => lyr_out = Result("chill", Fin(1000000))

\* C9 witness: whitespace-only lyrics have been answered with ('chill', 0.1).
C9_Witness ==
    /\ pcL = "returned"
    /\ lyrics = PyStr(<<" ", " ">>)
    /\ lyr_out = Result("chill", Fin(1000000))

\* C10: for every lyrics input and compound in [-1, 1] the returned mood is
\* one of the four moods and the confidence lies in [0, 1].
C10_MoodAndConfidenceRange ==
    (pcL = "returned" /\ -One <= compound.v /\ compound.v <= One)
    => /\ lyr_out.mood \in {"happy", "chill", "sad", "hyped"}
       /\ InUnit(lyr_out.confidence)

\* C10 witness: compound -1 on a real text: sad with confidence 1, the upper
\* end of the range.
C10_Witness ==
    /\ pcL = "returned"
    /\ NonEmptyText(lyrics)
    /\ compound = Fin(-One)
    /\ lyr_out = Result("sad", Fin(One))

\* C11: the row's audio_top2_combo is "<audio_prediction>|<audio_second_choice>"
\* exactly when audio_margin < 0.15, and the audio_prediction alone otherwise.
C11_Top2ComboIffBorderline ==
    batch_row.written =>
        LET joined == audio_info.predictions \o "|" \o audio_info.second_choice
        IN  /\ batch_row.audio_margin = audio_info.margin
            /\ batch_row.audio_prediction = audio_info.predictions
            /\ batch_row.audio_second_choice = audio_info.second_choice
            /\ batch_row.audio_margin.v < 1500000
                  => batch_row.audio_top2_combo = joined
            /\ batch_row.audio_margin.v >= 1500000
                  => batch_row.audio_top2_combo = audio_info.predictions
            /\ batch_row.audio_top2_combo = joined <=> batch_row.audio_margin.v < 1500000

\* C11 witness: a row with margin exactly 0.15 (0.50 over 0.35) carries the
\* prediction alone.
C11_Witness ==
    /\ batch_row.written
    /\ batch_row.audio_margin = Fin(1500000)
    /\ batch_row.audio_prediction = "happy"
    /\ batch_row.audio_top2_combo = "happy"

\* the value the frame holds in column c
ValueIn(dfr, c) == dfr[CHOOSE j \in 1..Len(dfr) : dfr[j].col = c].val

\* C18: for a frame holding at least one of the model's features, in any
\* column order and with any extra columns, the matrix given to the pipeline
\* has exactly the columns of model_data['features'] in the artifact's order,
\* with the frame's values, and 0 in every feature the frame lacks.
C18_FeatureOrderRespected ==
    (/\ pcA # "call"
     /\ \E i \in 1..Len(feature_names) : feature_names[i] \in ColumnsOf(df_row))
    => /\ Len(X) = Len(feature_names)
       /\ \A i \in 1..Len(feature_names) :
            /\ X[i].col = feature_names[i]
            /\ X[i].val = IF feature_names[i] \in ColumnsOf(df_row)
                          THEN ValueIn(df_row, feature_names[i])
                          ELSE 0

\* C18 witness: a frame with an extra column first and energy only: the
\* pipeline got tempo = 0 followed by the frame's energy.
C18_Witness ==
    /\ pcA = "returned"
    /\ df_row = <<Cell("Album", 9), Cell("energy", 4)>>
    /\ X = <<Cell("tempo", 0), Cell("energy", 4)>>

StatsReturned == pcT = "responded" /\ stats.status = 200

\* the text is mood m up to case, with blanks before and after
IsMoodText(cs, m) ==
    \E a \in 0..(Len(cs) - Len(Chars(m))) :
        /\ \A i \in 1..a : cs[i] = " "
        /\ \A i \in 1..Len(Chars(m)) : Lower(cs[a + i]) = Chars(m)[i]
        /\ \A i \in (a + Len(Chars(m)) + 1)..Len(cs) : cs[i] = " "

HoldsMood(cell, m) == cell.k = "str" /\ IsMoodText(cell.s, m)

\* the rows of the file whose audio cell holds mood a and lyrics cell mood l
RowsWith(a, l) ==
    { i \in 1..Len(corpus.rows) :
        /\ HoldsMood(corpus.rows[i].audio_prediction, a)
        /\ HoldsMood(corpus.rows[i].lyrics_prediction, l) }

\* the rows of the file with a mood in both cells
AdmittedRows ==
    { i \in 1..Len(corpus.rows) :
        /\ \E a \in Moods : HoldsMood(corpus.rows[i].audio_prediction, a)
        /\ \E l \in Moods : HoldsMood(corpus.rows[i].lyrics_prediction, l) }

\* C12: a row is counted in the agreement, distribution and confusion
\* statistics iff both predictions are non-null and are one of the four moods
\* once lowercased and trimmed; a row that is not is in no count, so it is
\* neither in the denominator nor a disagreement.
C12_RowAdmission ==
    StatsReturned =>
        LET out == stats.payload[1]
            n == Cardinality(AdmittedRows)
        IN  /\ out.agreement.agree =
                 Cardinality(UNION { RowsWith(m, m) : m \in Moods })
            /\ out.agreement.disagree =
                 Cardinality(UNION { IF a = l THEN {} ELSE RowsWith(a, l) :
                                       a \in Moods, l \in Moods })
            /\ \A i \in 1..4 :
                 /\ out.confusion[i].happy = Cardinality(RowsWith(valid_moods[i], "happy"))
                 /\ out.confusion[i].chill = Cardinality(RowsWith(valid_moods[i], "chill"))
                 /\ out.confusion[i].sad = Cardinality(RowsWith(valid_moods[i], "sad"))
                 /\ out.confusion[i].hyped = Cardinality(RowsWith(valid_moods[i], "hyped"))
                 /\ out.distribution[i].audio =
                      Pct(Cardinality(UNION { RowsWith(valid_moods[i], l) : l \in Moods }), n)
                 /\ out.distribution[i].lyrics =
                      Pct(Cardinality(UNION { RowsWith(a, valid_moods[i]) : a \in Moods }), n)

\* C12 witness: of three rows, the one written " Sad " / "SAD " is counted
\* as an agreement, the ones with a text that is no mood or a missing cell
\* are in no count.
C12_Witness ==
    /\ StatsReturned
    /\ Len(corpus.rows) = 3
    /\ corpus.rows[1].audio_prediction = PyStr(<<" ", "S", "a", "d", " ">>)
    /\ corpus.rows[1].lyrics_prediction = PyStr(<<"S", "A", "D", " ">>)
    /\ corpus.rows[2].audio_prediction = PyStr(<<"m", "a", "d">>)
    /\ corpus.rows[2].lyrics_prediction = PyStr(Chars("happy"))
    /\ corpus.rows[3].audio_prediction = PyNaN
    /\ stats.payload[1].agreement.agree = 1
    /\ stats.payload[1].agreement.disagree = 0
    /\ stats.payload[1].distribution[3].audio = Hundred

\* C13: in a statistics payload agree + disagree is the number of admitted
\* rows and agree_pct + disagree_pct is 100.
C13_AgreementTotals ==
    StatsReturned =>
        LET ag == stats.payload[1].agreement
        IN  /\ ag.agree + ag.disagree = Cardinality(AdmittedRows)
            /\ IsFin(ag.agree_pct) /\ IsFin(ag.disagree_pct)
            /\ ag.agree_pct.v + ag.disagree_pct.v = 100 * One

\* C13 witness: three admitted rows of which one agrees: 1 + 2 rows,
\* 33.33333 + 66.66667 percent.
C13_Witness ==
    /\ StatsReturned
    /\ Cardinality(AdmittedRows) = 3
    /\ stats.payload[1].agreement.agree = 1
    /\ stats.payload[1].agreement.disagree = 2
    /\ stats.payload[1].agreement.agree_pct = Fin(333333300)
    /\ stats.payload[1].agreement.disagree_pct = Fin(666666700)

\* C14: the confusion output has four rows, one per audio mood in the order
\* happy, chill, sad, hyped, each with the four lyrics cells; cell (a, l) is
\* the number of admitted rows with audio mood a and lyrics mood l, and the
\* 16 cells add up to the number of admitted rows.
C14_ConfusionMatrix ==
    StatsReturned =>
        LET cf == stats.payload[1].confusion
        IN  /\ Len(cf) = 4
            /\ <<cf[1].audio, cf[2].audio, cf[3].audio, cf[4].audio>> =
                 <<"Happy", "Chill", "Sad", "Hyped">>
            /\ \A i \in 1..4 :
                 /\ DOMAIN cf[i] = {"audio", "happy", "chill", "sad", "hyped"}
                 /\ cf[i].happy = Cardinality(RowsWith(valid_moods[i], "happy"))
                 /\ cf[i].chill = Cardinality(RowsWith(valid_moods[i], "chill"))
                 /\ cf[i].sad = Cardinality(RowsWith(valid_moods[i], "sad"))
                 /\ cf[i].hyped = Cardinality(RowsWith(valid_moods[i], "hyped"))
            /\ cf[1].happy + cf[1].chill + cf[1].sad + cf[1].hyped
               + cf[2].happy + cf[2].chill + cf[2].sad + cf[2].hyped
               + cf[3].happy + cf[3].chill + cf[3].sad + cf[3].hyped
               + cf[4].happy + cf[4].chill + cf[4].sad + cf[4].hyped
               = Cardinality(AdmittedRows)

\* C14 witness: the rows (happy, happy), (sad, chill), (chill, chill): cell
\* (sad, chill) is 1 and cell (chill, sad) is 0.
C14_Witness ==
    /\ StatsReturned
    /\ Len(corpus.rows) = 3
    /\ RowsWith("happy", "happy") = {1}
    /\ RowsWith("sad", "chill") = {2}
    /\ RowsWith("chill", "chill") = {3}
    /\ stats.payload[1].confusion[3].chill = 1
    /\ stats.payload[1].confusion[2].sad = 0
    /\ stats.payload[1].confusion[2].chill = 1
    /\ stats.payload[1].confusion[1].happy = 1

\* a finite percentage in [0, 100]
InPct(x) == IsFin(x) /\ 0 <= x.v /\ x.v <= 100 * One

\* C15: every percentage of a statistics payload (agree_pct, disagree_pct,
\* the distribution and the low-confidence percentages) is a finite number
\* in [0, 100] and every histogram count is a non-negative integer, whatever
\* the predictions and confidences of the rows.
C15_BoundedOutputs ==
    StatsReturned =>
        LET out == stats.payload[1]
        IN  /\ InPct(out.agreement.agree_pct)
            /\ InPct(out.agreement.disagree_pct)
            /\ \A i \in 1..Len(out.distribution) :
                 InPct(out.distribution[i].audio) /\ InPct(out.distribution[i].lyrics)
            /\ \A i \in 1..Len(out.lowConfidence) :
                 InPct(out.lowConfidence[i].audio) /\ InPct(out.lowConfidence[i].lyrics)
            /\ \A i \in 1..Len(out.confidenceDistribution) :
                 /\ out.confidenceDistribution[i].audio \in Nat
                 /\ out.confidenceDistribution[i].lyrics \in Nat

\* C15 witness: a file with a confidence that is not a number, one above 1
\* and a missing one has been answered; the mood without rows has 0 percent.
C15_Witness ==
    /\ StatsReturned
    /\ corpus.conf_cols
    /\ \E i, j, k \in 1..Len(corpus.rows) :
         /\ corpus.rows[i].audio_confidence = NonNumeric
         /\ corpus.rows[j].audio_confidence = Fin(130 * (One \div 100))
         /\ corpus.rows[k].lyrics_confidence = NaN
    /\ stats.payload[1].lowConfidence[1].audio = Fin(0)
    /\ stats.payload[1].lowConfidence[2].audio = Fin(0)

\* C16: when the prediction columns are there and no row survives the
\* admission filter, the answer is HTTP 400 with an error and no statistics.
C16_DegenerateCorpusError ==
    (/\ pcT = "responded"
     /\ corpus.file = "frame"
     /\ corpus.pred_cols
     /\ AdmittedRows = {})
    => /\ stats.status = 400
       /\ stats.error # ""
       /\ stats.payload = <<>>

\* C16 witness: two rows without a null cell and without a mood ("mad",
\* " NaN") have been answered with the error of the second test.
C16_Witness ==
    /\ pcT = "responded"
    /\ Len(corpus.rows) = 2
    /\ \A i \in 1..2 :
         /\ corpus.rows[i].audio_prediction = PyStr(<<"m", "a", "d">>)
         /\ corpus.rows[i].lyrics_prediction = PyStr(<<" ", "N", "a", "N">>)
    /\ stats.status = 400
    /\ stats.error = "No valid predictions after normalization and filtering"

\* a confidence cell holding a number
IsNumber(cell) == cell.k \in {"fin", "pinf", "ninf"}

\* the bin of a number once clipped to [0, 1]: boundaries go up, 1.0 is in
\* the last bin
BinAfterClip(cell) ==
    CASE cell.k = "pinf" -> 5
      [] cell.k = "ninf" -> 1
      [] cell.v < 2000000 -> 1
      [] cell.v < 4000000 -> 2
      [] cell.v < 6000000 -> 3
      [] cell.v < 8000000 -> 4
      [] OTHER -> 5

\* the admitted rows in which both confidences are numbers
BinnedRows ==
    { i \in AdmittedRows :
        IsNumber(corpus.rows[i].audio_confidence) /\
        IsNumber(corpus.rows[i].lyrics_confidence) }

\* C17: with both confidence columns there, bin b of each histogram counts
\* the admitted rows whose confidences are numbers and whose value, clipped
\* to [0, 1], lies in [0,0.2), [0.2,0.4), [0.4,0.6), [0.6,0.8) or [0.8,1.0]
\* (a boundary in the upper bin, 1.0 in the last); a row with a missing or
\* non-numeric confidence is in no bin.
C17_ConfidenceBinning ==
    (StatsReturned /\ corpus.conf_cols) =>
        LET hist == stats.payload[1].confidenceDistribution
            binned == BinnedRows
        IN  /\ Len(hist) = 5
            /\ \A b \in 1..5 :
                 /\ hist[b].audio = Cardinality({ i \in binned :
                        BinAfterClip(corpus.rows[i].audio_confidence) = b })
                 /\ hist[b].lyrics = Cardinality({ i \in binned :
                        BinAfterClip(corpus.rows[i].lyrics_confidence) = b })

\* C17 witness: audio confidences 0.2, missing and 1.0 (lyrics 0.6 each):
\* 0.2 is in the second bin, 1.0 in the last, the row of the missing one in
\* no bin of either histogram.
C17_Witness ==
    /\ StatsReturned
    /\ corpus.conf_cols
    /\ Len(corpus.rows) = 3
    /\ corpus.rows[1].audio_confidence = Fin(2000000)
    /\ corpus.rows[2].audio_confidence = NaN
    /\ corpus.rows[3].audio_confidence = Fin(One)
    /\ \A i \in 1..3 : corpus.rows[i].lyrics_confidence = Fin(6000000)
    /\ stats.payload[1].confidenceDistribution[2].audio = 1
    /\ stats.payload[1].confidenceDistribution[5].audio = 1
    /\ stats.payload[1].confidenceDistribution[1].audio = 0
    /\ stats.payload[1].confidenceDistribution[4].lyrics = 2

\* C19: normalize_features applied to a frame it returned gives the same
\* frame again: the same columns in the same order with the same values.
C19_NormalizeIdempotent ==
    pcN = "twice" => (nf_twice.ok /\ nf_twice.frame = nf_out.frame)

\* C19 witness: "Loudness (db)" holding a text without digits and no
\* loudness: the first call adds an all-missing loudness, so the second call
\* goes through the repair again and returns the same frame.
C19_Witness ==
    /\ pcN = "twice"
    /\ nf_in = <<Cell("Loudness (db)", PyStr(<<"N", "/", "A">>)), Cell("Album", Fin(One))>>
    /\ nf_out.frame = <<Cell("loudness_src", PyStr(<<"N", "/", "A">>)),
                        Cell("loudness", NaN)>>
    /\ nf_twice.frame = nf_out.frame

\* C20: normalize_features returns a frame and raises nothing, whatever
\* canonical and alias columns the frame carries.
C20_NeverRaises ==
    pcN # "call" => nf_out.ok

\* the text of a cell without surrounding blanks and without the unit
\* "dB" (in either case) that may follow the number
WithoutUnit(cs) ==
    LET t == ReplaceMinus(Strip(cs))
        n == Len(t)
    IN  IF n >= 2 /\ t[n - 1] \in {"d", "D"} /\ t[n] \in {"b", "B"}
        THEN RStrip(SubSeq(t, 1, n - 2))
        ELSE t

\* a text that writes a decimal number: an optional sign, digits and at most
\* one point, optionally followed by the unit
IsDecimalText(cs) == IsFin(ToNumericText(WithoutUnit(cs)))

\* the number a source cell holds when it is parseable: a finite float, or
\* a decimal text
IsParseable(cell) ==
    IF cell.k = "str" THEN IsDecimalText(cell.s) ELSE IsFin(cell)

SourceValue(cell) ==
    IF cell.k = "str" THEN ToNumericText(WithoutUnit(cell.s)) ELSE cell

\* a text in which no digit occurs
HasNoDigit(cell) ==
    cell.k = "str" /\ \A i \in 1..Len(cell.s) : ~IsDigit(cell.s[i])

\* C21: every value clean_loudness produces is missing or a number in
\* [-60, 0]; a parseable source value below -60 gives -60 and one above 0
\* gives 0; a value that holds no number gives missing, never 0; "-5.2 dB"
\* gives -5.2 and "200dB" gives 0.
C21_CleanLoudnessRange ==
    pcC = "returned" =>
        /\ IsNaN(cleaned) \/ (IsFin(cleaned) /\ cleaned.v >= -60 * One /\ cleaned.v <= 0)
        /\ (IsParseable(series) /\ SourceValue(series).v < -60 * One)
               => cleaned = Fin(-60 * One)
        /\ (IsParseable(series) /\ SourceValue(series).v > 0) => cleaned = Fin(0)
        /\ (HasNoDigit(series) \/ IsNaN(series)) => IsNaN(cleaned)
        /\ series = PyStr(<<"-", "5", ".", "2", " ", "d", "B">>)
               => cleaned = Fin(-52 * (One \div 10))
        /\ series = PyStr(<<"2", "0", "0", "d", "B">>) => cleaned = Fin(0)

\* the rows of the file the mapping kept
KeptRows == { mapped_df[j].row : j \in 1..Len(mapped_df) }

\* the label of a cell: its text in lower case without surrounding blanks
LabelOf(cell) == LowerStr(Strip(cell.s))

\* the mood the mapping table gives a label, "" when it gives none
TableMood(label) ==
    CASE label \in {<<"j", "o", "y">>, <<"s", "u", "r", "p", "r", "i", "s", "e">>, <<"i", "n", "t", "e", "r", "e", "s", "t">>} -> "happy"
      [] label = <<"l", "o", "v", "e">> -> "chill"
      [] label = <<"s", "a", "d", "n", "e", "s", "s">> -> "sad"
      [] label \in {<<"a", "n", "g", "e", "r">>, <<"a", "n", "g", "r", "y">>, <<"f", "e", "a", "r">>, <<"t", "h", "i", "r", "s", "t">>} -> "hyped"
      [] OTHER -> ""

\* C22: every row the label mapping keeps has one of the four moods, the
\* one MOOD_MAP gives its raw label; a row whose label is missing, mapped to
\* None ("confusion") or not a key of MOOD_MAP is dropped; the kept rows
\* stay in the order of the file.
C22_LabelMapping ==
    pcP = "mapped" =>
        /\ \A j \in 1..Len(mapped_df) :
              /\ mapped_df[j].mood \in Moods
              /\ raw_df[mapped_df[j].row].k = "str"
              /\ mapped_df[j].mood = TableMood(LabelOf(raw_df[mapped_df[j].row]))
        /\ \A i \in 1..Len(raw_df) :
              i \in KeptRows <=>
                  (raw_df[i].k = "str" /\ TableMood(LabelOf(raw_df[i])) # "")
        /\ \A j, k \in 1..Len(mapped_df) : j < k => mapped_df[j].row < mapped_df[k].row

\* C22 witness: "joy", "confusion" and " love " in one file: the first and
\* the third row are kept as happy and chill, the second is dropped.
C22_Witness ==
    /\ pcP = "mapped"
    /\ raw_df = <<PyStr(<<"j", "o", "y">>), PyStr(<<"c", "o", "n", "f", "u", "s", "i", "o", "n">>), PyStr(<<" ", "l", "o", "v", "e", " ">>)>>
    /\ Len(mapped_df) = 2
    /\ mapped_df[1].mood = "happy" /\ mapped_df[1].row = 1
    /\ mapped_df[2].mood = "chill" /\ mapped_df[2].row = 3

\* the number of rows max_songs asks to classify
FirstN == IF max_songs.k = "int" THEN max_songs.v ELSE Len(ds_df.rows)

\* C23: classify_dataset returns the rows of its input in the same order
\* with the same index, each classified row carrying what classify_lyrics
\* gives for its lyrics (('chill', 0.1) for empty lyrics); with max_songs = n
\* only the first n rows are classified, the others carry None and 0.0; a
\* frame without the lyrics column fails before any row is classified.
C23_ClassifyDataset ==
    pcD # "call" =>
        IF ~ds_df.has_lyrics
        THEN ~ds_out.ok /\ ds_out.classified = 0
        ELSE /\ ds_out.ok
             /\ Len(ds_out.frame) = Len(ds_df.rows)
             /\ ds_out.index_kind = ds_df.index.kind
             /\ \A i \in 1..Len(ds_df.rows) :
                  /\ ds_out.frame[i].label = ds_df.index.labels[i]
                  /\ ds_out.frame[i].lyrics = ds_df.rows[i].lyrics
                  /\ IF i <= FirstN
                     THEN /\ ds_out.frame[i].lyrics_prediction
                               = ClassifyLyrics(ds_df.rows[i].lyrics,
                                                ds_df.rows[i].compound).mood
                          /\ ds_out.frame[i].lyrics_confidence
                               = ClassifyLyrics(ds_df.rows[i].lyrics,
                                                ds_df.rows[i].compound).confidence
                          /\ IsMissingLyrics(ds_df.rows[i].lyrics)
                               => /\ ds_out.frame[i].lyrics_prediction = "chill"
                                  /\ ds_out.frame[i].lyrics_confidence = Fin(One \div 10)
                     ELSE /\ ds_out.frame[i].lyrics_prediction = "None"
                          /\ ds_out.frame[i].lyrics_confidence = Fin(0)

\* C24: when a prediction step the handler attempted fails (the audio step
\* gives no result or raises, or the lyrics classifier raises), the response
\* is an error; no success response carries the other model's prediction
\* alone after such a failure.
C24_FailsCompletely ==
    (pcS = "responded" /\ (log.audio \in {"none", "raised"} \/ log.lyrics = "raised"))
        => resp.status # 200

\* C25: the shared classifier is never written after construction: no
\* request handler, through classify_lyrics, changes one of its fields.
C25_ClassifierNeverMutated == [][api_calls' = api_calls]_vars

\* candidate i has a mean CV accuracy and no candidate has a higher one
HasHighestMean(i) ==
    /\ IsFin(cv_mean[i])
    /\ \A j \in 1..Len(candidates) : IsFin(cv_mean[j]) => cv_mean[j].v <= cv_mean[i].v

\* the first-registered candidate among those with the highest mean
FirstWithHighestMean ==
    CHOOSE i \in 1..Len(candidates) :
        HasHighestMean(i) /\ \A j \in 1..(i - 1) : ~HasHighestMean(j)

\* C26: the training loop selects the candidate with the highest mean
\* cross-validation accuracy, the first-registered one among equals; the
\* choice is a function of the CV means alone, whatever the test accuracies;
\* and the saved artifact holds the pipeline selected.
C26_SelectsHighestCvMean ==
    /\ pcG \in {"report", "saved"} /\ (\E i \in 1..Len(candidates) : IsFin(cv_mean[i]))
          => /\ best.name = candidates[FirstWithHighestMean]
             /\ best.cv = cv_mean[FirstWithHighestMean]
    /\ pcG = "saved" => artifact.saved /\ artifact.pipeline = best.name
    /\ pcG = "report" /\ (\E i \in 1..Len(candidates) : IsFin(cv_mean[i]))
          => best.pipe # "None"

\* C26 witness: LogReg and RF tie at 0.7 above KNN, and RF has the better
\* test accuracy: LogReg is saved.
C26_Witness ==
    /\ pcG = "saved"
    /\ cv_mean = <<Fin(70 * (One \div 100)), Fin(60 * (One \div 100)),
                   Fin(70 * (One \div 100))>>
    /\ test_acc = <<Fin(40 * (One \div 100)), Fin(40 * (One \div 100)),
                    Fin(90 * (One \div 100))>>
    /\ artifact.pipeline = "LogReg"

AudioLow(x) == x.audio_confidence.v < 35 * (One \div 100)
LyricsLow(x) == x.lyrics_confidence.v < 60 * (One \div 100)
Borderline(x) == x.audio_margin.v < 15 * (One \div 100)

BothPathsRan == pcW = {"request", "batch"}

\* C28 as stated: the request path and the batch path assign the same flags
\* with the same values: audio low-confidence iff confidence < 0.35, lyrics
\* low-confidence iff confidence < 0.6 and borderline iff margin < 0.15.
C28_SameFlagsOnBothPaths ==
    BothPathsRan =>
        /\ DOMAIN request_flags = DOMAIN batch_flags
        /\ \A f \in DOMAIN batch_flags : request_flags[f] = batch_flags[f]
        /\ batch_flags["audio_low_confidence"] = AudioLow(song_conf)
        /\ batch_flags["lyrics_low_confidence"] = LyricsLow(song_conf)
        /\ batch_flags["audio_borderline"] = Borderline(song_conf)

\* C28 amended: both paths assign the two low-confidence flags, with the
\* same values (audio iff confidence < 0.35, lyrics iff confidence < 0.6,
\* strictly); the borderline flag is assigned by the batch path alone, iff
\* margin < 0.15 strictly, and the request path assigns no such flag.
C28_LowConfidenceFlagsAgree ==
    /\ "request" \in pcW =>
          /\ DOMAIN request_flags = {"audio_low_confidence", "lyrics_low_confidence"}
          /\ request_flags["audio_low_confidence"] = AudioLow(song_conf)
          /\ request_flags["lyrics_low_confidence"] = LyricsLow(song_conf)
    /\ "batch" \in pcW =>
          /\ DOMAIN batch_flags
                = {"audio_low_confidence", "lyrics_low_confidence", "audio_borderline"}
          /\ batch_flags["audio_low_confidence"] = AudioLow(song_conf)
          /\ batch_flags["lyrics_low_confidence"] = LyricsLow(song_conf)
          /\ batch_flags["audio_borderline"] = Borderline(song_conf)

\* C28 witness: a song with confidence 0.35, margin 0.15 and lyrics
\* confidence 0.6 went through both paths and no flag is set on either.
C28_Witness ==
    /\ BothPathsRan
    /\ song_conf = SongConfidences(Fin(35 * (One \div 100)), Fin(15 * (One \div 100)),
                                   Fin(60 * (One \div 100)))
    /\ \A f \in DOMAIN request_flags : ~request_flags[f]
    /\ \A f \in DOMAIN batch_flags : ~batch_flags[f]

\* a step of the process leaves a loaded model and a constructed classifier
\* as they are, and a request handler assigns neither global
LoadedOnceStep ==
    /\ model_data.loaded => model_data' = model_data
    /\ lyrics_classifier => lyrics_classifier' = lyrics_classifier
    /\ pcS = "serving" /\ pcS' = "responded"
          => model_data' = model_data /\ lyrics_classifier' = lyrics_classifier

\* C29 as stated: model_data and lyrics_classifier are loaded at most once
\* and no request handler assigns them, and every predict request answered
\* while the audio model is absent gets the 'Audio model not loaded' error.
C29_LoadedOnceAndEveryRequestFails ==
    /\ [][LoadedOnceStep]_vars
    /\ []((pcS = "responded" /\ ~model_data.loaded)
             => resp = ErrorResponse(500, "Audio model not loaded"))

\* the request passed the checks that come before the audio step: it has a
\* body with a song and audio features, given or found in the dataset
ReachesModelCheck(r) == r.data = "object" /\ r.audio_features # "absent_unknown"

\* C29 amended: model_data and lyrics_classifier are loaded at most once
\* (once non-None never reloaded or replaced) and no request handler
\* assigns them, so requests leave an absent model absent; every predict
\* request that passes the checks for the song and its audio features while
\* the audio model is absent gets the 'Audio model not loaded' error, the
\* others get their own 400, 404 or 500 error.
C29_LoadedOnce ==
    /\ [][LoadedOnceStep]_vars
    /\ []((pcS = "responded" /\ ~model_data.loaded)
             => /\ resp.status # 200
                /\ ReachesModelCheck(req)
                      <=> resp = ErrorResponse(500, "Audio model not loaded"))

\* C29 witness: load_models found no model, and a request with a song and
\* numeric audio features was answered with the error.
C29_Witness ==
    /\ pcS = "responded"
    /\ ~model_data.loaded
    /\ req.data = "object" /\ req.audio_features = "numeric"
    /\ resp = ErrorResponse(500, "Audio model not loaded")

\* the sum of one histogram's five counts
RECURSIVE HistogramSum(_, _, _)
HistogramSum(hist, side, n) ==
    IF n = 0 THEN 0
    ELSE (IF side = "audio" THEN hist[n].audio ELSE hist[n].lyrics)
         + HistogramSum(hist, side, n - 1)

\* C30: in every statistics payload computed from a corpus with both
\* confidence columns, the five audio counts and the five lyrics counts of
\* the histogram have the same sum, the number of admitted rows in which
\* both confidences are numeric; a row missing either is in neither.
C30_HistogramSums ==
    (StatsReturned /\ corpus.conf_cols) =>
        LET hist == stats.payload[1].confidenceDistribution
            n == Cardinality(BinnedRows)
        IN  /\ Len(hist) = 5
            /\ HistogramSum(hist, "audio", 5) = n
            /\ HistogramSum(hist, "lyrics", 5) = n

\* C30 witness: three admitted rows, one without an audio confidence, one
\* without a lyrics confidence and one with both; both histograms sum to 1.
C30_Witness ==
    /\ StatsReturned /\ corpus.conf_cols
    /\ Len(corpus.rows) = 3
    /\ Cardinality(AdmittedRows) = 3
    /\ \E i, j, k \in 1..3 :
         /\ ~IsNumber(corpus.rows[i].audio_confidence)
         /\ IsNumber(corpus.rows[i].lyrics_confidence)
         /\ IsNumber(corpus.rows[j].audio_confidence)
         /\ ~IsNumber(corpus.rows[j].lyrics_confidence)
         /\ IsNumber(corpus.rows[k].audio_confidence)
         /\ IsNumber(corpus.rows[k].lyrics_confidence)
    /\ HistogramSum(stats.payload[1].confidenceDistribution, "audio", 5) = 1
    /\ HistogramSum(stats.payload[1].confidenceDistribution, "lyrics", 5) = 1

====
